---- MODULE Spec2Model ----
(***************************************************************************)
(* Impact analyzer (src/src/index.ts, second server version, lines 252 on). *)
(*                                                                         *)
(* Strings are sequences of chunks: "/" and "." are chunks of their own,   *)
(* every other chunk is a run of characters without "/" and "." that no    *)
(* pattern of the program matches only partly ("src/a.test.ts" is          *)
(* <<"src", "/", "a", ".", "test", ".", "ts">>).  The string operations of *)
(* the program (startsWith, includes, +, path.join, ...) are the           *)
(* corresponding sequence operations.                                      *)
(***************************************************************************)
EXTENDS Integers, Sequences, FiniteSets, TLC

VARIABLES
    files,          \* paths of the regular files on disk, in readdir order
    content,        \* content[p]: what readFile gives for file p
    denied,         \* the files and directories whose read or listing fails
    pc,             \* position of the tool-call handler
    tool,           \* request.params.name
    changedFiles,   \* result of getChangedFiles: records path/additions/deletions
    gitOk,          \* whether git produced the branch's diff summary
    error,          \* the McpError the handler rejects with, "none" without one
    allFiles,       \* findIndirectDependencies: allFiles
    fileIdx,        \* findIndirectDependencies: position of the indexing loop
    dependencyMap,  \* findIndirectDependencies: dependencyMap
    directDeps,     \* findIndirectDependencies: directDeps
    indirectDeps,   \* findIndirectDependencies: indirectDeps
    allAffected,    \* findIndirectDependencies: allAffected (insertion ordered)
    processed,      \* findIndirectDependencies: processed
    expansions,     \* the files findIndirect read the dependents of, in order
    testFiles,      \* findRelatedTests: testFiles
    testIdx,        \* findRelatedTests: position of the classification loop
    relatedTests,   \* findRelatedTests: relatedTests
    testCoverage,   \* findRelatedTests: testCoverage
    missingTests,   \* findRelatedTests: missingTests
    risks,          \* analyzeRisksAndImpact: risks
    lastIndex,      \* history: the tree and the dependencyMap of the last finished build
    suspended,      \* the locals of a second handler that waits at an await
    lastResolve     \* the last call of resolveImportPath: arguments and result

vars == <<files, content, denied, pc, tool, changedFiles, gitOk, error, allFiles,
          fileIdx, dependencyMap, directDeps, indirectDeps, allAffected, processed,
          expansions, testFiles, testIdx, relatedTests, testCoverage, missingTests,
          risks, lastIndex, suspended, lastResolve>>

diskVars == <<files, content, denied>>
reqVars == <<tool, changedFiles, gitOk, error>>
otherVars == <<lastIndex, suspended, lastResolve>>
depVars == <<allFiles, fileIdx, dependencyMap, directDeps, indirectDeps,
             allAffected, processed, expansions>>
testVars == <<testFiles, testIdx, relatedTests, testCoverage, missingTests>>

-----------------------------------------------------------------------------
(* Strings *)

Sep == "/"

Dot == "."

\* the path segments "." and ".."
Here == <<Dot>>
Up == <<Dot, Dot>>

Range(s) == {s[i] : i \in 1..Len(s)}

StartsWith(s, p) == Len(p) <= Len(s) /\ SubSeq(s, 1, Len(p)) = p

EndsWith(s, p) == Len(p) <= Len(s) /\ SubSeq(s, Len(s) - Len(p) + 1, Len(s)) = p

Includes(s, sub) ==
    \E i \in 0..(Len(s) - Len(sub)) : SubSeq(s, i + 1, i + Len(sub)) = sub

\* Array.prototype.includes
SeqIncludes(seq, x) == \E i \in 1..Len(seq) : seq[i] = x

\* a Set.add that does not look for the value first
SetAdd_push(seq, x) == Append(seq, x)

\* Set.prototype.add on a Set that is later converted by Array.from
SetAdd(seq, x) == IF SeqIncludes(seq, x) THEN seq ELSE Append(seq, x)

RECURSIVE SetAddAll(_, _)
SetAddAll(seq, xs) ==
    IF xs = <<>> THEN seq ELSE SetAddAll(SetAdd(seq, Head(xs)), Tail(xs))

\* the value null
Null == <<"<null>">>

\* JavaScript truthiness of a string-or-null
Truthy(s) == s # Null /\ s # <<>>

-----------------------------------------------------------------------------
(* node:path (posix) *)

IsAbsolute(s) == s # <<>> /\ s[1] = Sep

\* index of the first separator of s, Len(s) + 1 when there is none
FirstSep(s) ==
    IF \E i \in 1..Len(s) : s[i] = Sep
    THEN CHOOSE i \in 1..Len(s) : s[i] = Sep /\ \A j \in 1..(i - 1) : s[j] # Sep
    ELSE Len(s) + 1

\* index of the last separator of s, 0 when there is none
LastSep(s) ==
    IF \E i \in 1..Len(s) : s[i] = Sep
    THEN CHOOSE i \in 1..Len(s) : s[i] = Sep /\ \A j \in (i + 1)..Len(s) : s[j] # Sep
    ELSE 0

\* the non-empty segments of a path
RECURSIVE Split(_)
Split(s) ==
    IF s = <<>> THEN <<>>
    ELSE IF Head(s) = Sep THEN Split(Tail(s))
    ELSE LET n == FirstSep(s)
         IN  <<SubSeq(s, 1, n - 1)>> \o Split(SubSeq(s, n + 1, Len(s)))

\* normalizeString of node:path: "." dropped, ".." removes the segment before it
RECURSIVE NormalizeSegs(_, _, _)
NormalizeSegs(segs, acc, abs) ==
    IF segs = <<>> THEN acc
    ELSE LET g == Head(segs)
             next ==
                 IF g = Here THEN acc
                 ELSE IF g = Up
                      THEN IF acc # <<>> /\ acc[Len(acc)] # Up
                           THEN SubSeq(acc, 1, Len(acc) - 1)
                           ELSE IF abs THEN acc ELSE Append(acc, g)
                      ELSE Append(acc, g)
         IN  NormalizeSegs(Tail(segs), next, abs)

RECURSIVE JoinSegs(_)
JoinSegs(segs) ==
    IF segs = <<>> THEN <<>>
    ELSE IF Len(segs) = 1 THEN segs[1]
    ELSE segs[1] \o <<Sep>> \o JoinSegs(Tail(segs))

\* path.normalize (paths without a trailing separator)
Normalize(s) ==
    LET Joined(segs) == IF IsAbsolute(s) THEN <<Sep>> \o JoinSegs(segs)
                        ELSE IF segs = <<>> THEN Here ELSE JoinSegs(segs)
    IN  Joined(NormalizeSegs(Split(s), <<>>, IsAbsolute(s)))

\* path.join(a, b)
Join(a, b) ==
    Normalize(IF a = <<>> THEN b ELSE IF b = <<>> THEN a ELSE a \o <<Sep>> \o b)

\* path.dirname
Dirname(p) ==
    LET i == LastSep(p)
    IN  IF i = 0 THEN Here
        ELSE IF i = 1 THEN <<Sep>>
        ELSE SubSeq(p, 1, i - 1)

\* path.basename(p)
Basename(p) == SubSeq(p, LastSep(p) + 1, Len(p))

\* path.extname: from the last dot of the base name, unless that dot starts it
Extname(p) ==
    LET b == Basename(p)
        dots == {i \in 2..Len(b) : b[i] = Dot}
    IN  IF dots = {} \/ b = Up THEN <<>>
        ELSE LET k == CHOOSE i \in dots : \A j \in dots : j <= i
             IN  SubSeq(b, k, Len(b))

\* path.basename(p, ext)
BasenameExt(p, ext) ==
    LET b == Basename(p)
    IN  IF ext # <<>> /\ ext # b /\ EndsWith(b, ext)
        THEN SubSeq(b, 1, Len(b) - Len(ext))
        ELSE b

RECURSIVE CommonPrefixLen(_, _)
CommonPrefixLen(a, b) ==
    IF a = <<>> \/ b = <<>> \/ Head(a) # Head(b) THEN 0
    ELSE 1 + CommonPrefixLen(Tail(a), Tail(b))

\* path.relative(from, to) for absolute paths
Relative(from, to) ==
    LET Rest(f, t, c) == JoinSegs([i \in 1..(Len(f) - c) |-> Up] \o SubSeq(t, c + 1, Len(t)))
        Between(f, t) == Rest(f, t, CommonPrefixLen(f, t))
    IN  Between(NormalizeSegs(Split(from), <<>>, TRUE),
                NormalizeSegs(Split(to), <<>>, TRUE))

-----------------------------------------------------------------------------
(* Configuration *)

\* repository root as git rev-parse --show-toplevel reports it
RepoRoot == <<Sep, "repo">>

MAX_DEPENDENCY_DEPTH == 2

\* size ceiling findIndirectDependencies and findRelatedTests read files with
READ_CEILING == 50000

TEST_DIRECTORIES ==
    << <<"tests", Sep, "e2e", Sep, "specs">>,
       <<"tests", Sep, "e2e", Sep, "api", Sep, "api-specs">>,
       <<"tests", Sep, "unit", Sep, "backend">>,
       <<"tests", Sep, "integration", Sep, "backend">> >>

-----------------------------------------------------------------------------
(* File contents.  A file's text is a sequence of items                    *)
(*   [kind |-> "es6" | "require" | "dynamic" | "text", s |-> string,       *)
(*    size |-> number of characters];                                      *)
(* an es6 item is  import ... from 's',  a require item  require('s'),     *)
(* a dynamic item  import('s'),  a text item is other text s.              *)

RECURSIVE SizeOf(_)
SizeOf(c) == IF c = <<>> THEN 0 ELSE Head(c).size + SizeOf(Tail(c))

\* content.slice(0, maxSize): the items that lie wholly below the ceiling
RECURSIVE Slice(_, _)
Slice(c, maxSize) ==
    IF c = <<>> \/ Head(c).size > maxSize THEN <<>>
    ELSE <<Head(c)>> \o Slice(Tail(c), maxSize - Head(c).size)

\* the directories above a repository-relative file path
AncestorDirs(p) == {SubSeq(p, 1, i - 1) : i \in {j \in 1..Len(p) : p[j] = Sep}}

\* lines 413-415 and 379-381 without the failure: every listing succeeds
Reachable_always(rel) == TRUE

\* no directory on the way to the repository-relative path refuses access
Reachable(rel) == \A d \in AncestorDirs(rel) : d \notin denied

\* readFile succeeds on the repository-relative path
Readable(rel) == rel \in DOMAIN content /\ rel \notin denied /\ Reachable(rel)

\* readFileContent of an absolute path: '' when the file cannot be read
ReadFileContent(p, maxSize) ==
    LET Read(rel) == IF Readable(rel) THEN Slice(content[rel], maxSize) ELSE <<>>
    IN  Read(Relative(RepoRoot, p))

\* fileExists of an absolute path
FileExists(p) ==
    LET Exists(rel) == SeqIncludes(files, rel) /\ Reachable(rel)
    IN  Exists(Relative(RepoRoot, p))

JsExtensions == {<<Dot, "js">>, <<Dot, "jsx">>, <<Dot, "ts">>, <<Dot, "tsx">>}

OfKind(c, k) == SelectSeq(c, LAMBDA it : it.kind = k)

Specs(c) == [i \in 1..Len(c) |-> c[i].s]

\* extractImports (ECMAScript family): the matches of the three patterns,
\* one pattern after the other
ExtractImports(filePath, c) ==
    IF Extname(filePath) \in JsExtensions
    THEN Specs(OfKind(c, "es6")) \o Specs(OfKind(c, "require"))
             \o Specs(OfKind(c, "dynamic"))
    ELSE <<>>

ResolveExtensions ==
    << <<>>, <<Dot, "ts">>, <<Dot, "tsx">>, <<Dot, "js">>, <<Dot, "jsx">>,
       <<Dot, "py">>, <<Dot, "go">> >>

\* the candidates resolveImportPath tries, in its order
ResolveCandidates(importPath, fromFile, repoRoot) ==
    LET fromDir == Dirname(Join(repoRoot, fromFile))
        Tries(resolved) ==
            [i \in 1..Len(ResolveExtensions) |-> resolved \o ResolveExtensions[i]]
            \o [i \in 1..Len(ResolveExtensions) |->
                    Join(resolved, <<"index">> \o ResolveExtensions[i])]
    IN  Tries(Join(fromDir, importPath))

\* resolveImportPath
ResolveImportPath(importPath, fromFile, repoRoot) ==
    IF importPath # <<>> /\ (importPath[1] = Dot \/ importPath[1] = Sep)
    THEN LET FirstInside(cands) ==
                 LET ok == {i \in 1..Len(cands) : StartsWith(cands[i], repoRoot)}
                 IN  IF ok = {} THEN Null
                     ELSE Relative(repoRoot,
                                   cands[CHOOSE i \in ok : \A j \in ok : i <= j])
         IN  FirstInside(ResolveCandidates(importPath, fromFile, repoRoot))
    ELSE Null

SourceExtensions ==
    {<<Dot, "ts">>, <<Dot, "tsx">>, <<Dot, "js">>, <<Dot, "jsx">>, <<Dot, "py">>,
     <<Dot, "go">>, <<Dot, "java">>}

IgnoreDirs ==
    {<<"node_modules">>, <<Dot, "git">>, <<"dist">>, <<"build">>, <<Dot, "next">>,
     <<"coverage">>, <<Dot, "cache">>}

\* line 400: the directory's relative path includes one of the ignore names
Ignored(d) == \E ig \in IgnoreDirs : Includes(d, ig)

\* getAllSourceFiles: the walk does not enter a directory whose relative path
\* includes an ignore name or whose listing fails, and keeps the files with a
\* source extension
GetAllSourceFiles ==
    SelectSeq(files, LAMBDA p :
        /\ \A d \in AncestorDirs(p) : ~Ignored(d)
        /\ Reachable(p)
        /\ Extname(p) \in SourceExtensions)

-----------------------------------------------------------------------------
(* Record<string, string[]> *)

EmptyMap == <<>>

Lookup(m, k) == IF k \in DOMAIN m THEN m[k] ELSE <<>>

Put(m, k, v) == [x \in (DOMAIN m) \cup {k} |-> IF x = k THEN v ELSE m[x]]

\* Object.values(m).flat() as a set
Values(m) == UNION {Range(m[k]) : k \in DOMAIN m}

-----------------------------------------------------------------------------
(* findIndirectDependencies *)

Paths(cf) == [i \in 1..Len(cf) |-> cf[i].path]

\* line 505 without the changed files
SeedAffected_none(cf) == <<>>

\* line 505: new Set(changedFiles.map(f => f.path))
SeedAffected(cf) == SetAddAll(<<>>, Paths(cf))

\* line 543 letting one more level through
DepthExceeded_late(depth) == depth > MAX_DEPENDENCY_DEPTH + 1

\* line 543
DepthExceeded(depth) == depth > MAX_DEPENDENCY_DEPTH

\* lines 518-526: the edges of one file
RECURSIVE AddEdges(_, _, _)
AddEdges(m, file, imports) ==
    IF imports = <<>> THEN m
    ELSE LET Edge(resolved) == IF Truthy(resolved) /\ resolved # file
                               THEN Put(m, resolved, Append(Lookup(m, resolved), file))
                               ELSE m
         IN  AddEdges(Edge(ResolveImportPath(Head(imports), file, RepoRoot)),
                      file, Tail(imports))

\* lines 533-537
RECURSIVE DirectPass(_, _, _)
DirectPass(st, m, paths) ==
    IF paths = <<>> THEN st
    ELSE LET dependents == Lookup(m, Head(paths))
         IN  DirectPass([st EXCEPT !.directDeps = Put(@, Head(paths), dependents),
                                   !.allAffected = SetAddAll(@, dependents)],
                        m, Tail(paths))

\* line 544 never holding a file back
AlreadyProcessed_never(done, file) == FALSE

\* line 544
AlreadyProcessed(done, file) == file \in done

\* lines 542-559; st is the record of processed, indirectDeps and allAffected,
\* with the log of the files that got past lines 543 and 544
RECURSIVE FindIndirect(_, _, _, _)
RECURSIVE ForEachDependent(_, _, _, _)
FindIndirect(st, m, file, depth) ==
    IF DepthExceeded(depth) THEN st
    ELSE IF AlreadyProcessed(st.processed, file) THEN st
    ELSE LET dependents == Lookup(m, file)
             st1 == [st EXCEPT !.processed = @ \cup {file},
                               !.expansions = Append(@, file)]
         IN  IF Len(dependents) > 0
             THEN ForEachDependent(
                      [st1 EXCEPT !.indirectDeps = Put(@, file, dependents)],
                      m, dependents, depth)
             ELSE st1

ForEachDependent(st, m, dependents, depth) ==
    IF dependents = <<>> THEN st
    ELSE ForEachDependent(
             FindIndirect([st EXCEPT !.allAffected = SetAdd(@, Head(dependents))],
                          m, Head(dependents), depth + 1),
             m, Tail(dependents), depth)

\* lines 562-567
RECURSIVE IndirectPass(_, _, _)
RECURSIVE IndirectOver(_, _, _)
IndirectOver(st, m, direct) ==
    IF direct = <<>> THEN st
    ELSE IndirectOver(FindIndirect(st, m, Head(direct), 1), m, Tail(direct))

IndirectPass(st, m, paths) ==
    IF paths = <<>> THEN st
    ELSE IndirectPass(IndirectOver(st, m, Lookup(st.directDeps, Head(paths))),
                      m, Tail(paths))


-----------------------------------------------------------------------------
(* findRelatedTests *)

\* scanDirectory of an absolute directory: the files below it, as paths
\* relative to the repository root
ScanDirectory(dirPath) ==
    LET rel == Relative(RepoRoot, dirPath)
    IN  SelectSeq(files, LAMBDA p : StartsWith(p, rel \o <<Sep>>) /\ Reachable(p))

RECURSIVE ScanAll(_)
ScanAll(dirs) ==
    IF dirs = <<>> THEN <<>>
    ELSE ScanDirectory(Join(RepoRoot, Head(dirs))) \o ScanAll(Tail(dirs))

ProbeExtensions ==
    << <<Dot, "ts">>, <<Dot, "tsx">>, <<Dot, "js">>, <<Dot, "jsx">>, <<Dot, "py">> >>

\* lines 598-604
TestPatterns(path) ==
    LET fileDir == Dirname(path)
        fileName == BasenameExt(path, Extname(path))
    IN  << fileDir \o <<Sep>> \o fileName \o <<Dot, "test">>,
           fileDir \o <<Sep>> \o fileName \o <<Dot, "spec">>,
           fileDir \o <<Sep, "__tests__", Sep>> \o fileName,
           fileDir \o <<Sep, "test", Sep>> \o fileName,
           fileDir \o <<Sep, "tests", Sep>> \o fileName >>

\* pattern + ext for every pattern (outer loop) and extension (inner loop)
ProbeCandidates(path) ==
    LET pats == TestPatterns(path)
        n == Len(ProbeExtensions)
    IN  [i \in 1..(Len(pats) * n) |->
            pats[((i - 1) \div n) + 1] \o ProbeExtensions[((i - 1) % n) + 1]]

RECURSIVE AllCandidates(_)
AllCandidates(paths) ==
    IF paths = <<>> THEN <<>>
    ELSE ProbeCandidates(Head(paths)) \o AllCandidates(Tail(paths))

\* lines 593-615: a candidate is pushed when testFiles includes it or it
\* exists.  A candidate pushed earlier by this loop met that test itself, so
\* "testFiles includes it" is the same for the list tf the loop starts with
\* as for the list grown so far.
ProbeAll(tf, paths) ==
    tf \o SelectSeq(AllCandidates(paths),
                    LAMBDA testFile : \/ SeqIncludes(tf, testFile)
                                      \/ FileExists(Join(RepoRoot, testFile)))

\* lines 629-635: st is the record of related and confidence
RECURSIVE ImportEvidence(_, _, _, _)
ImportEvidence(st, testFile, imports, changedPaths) ==
    IF imports = <<>> THEN st
    ELSE LET Seen(resolved) ==
                 IF Truthy(resolved) /\ SeqIncludes(changedPaths, resolved)
                 THEN [related |-> Append(st.related, resolved), confidence |-> "high"]
                 ELSE st
         IN  ImportEvidence(Seen(ResolveImportPath(Head(imports), testFile, RepoRoot)),
                            testFile, Tail(imports), changedPaths)

\* line 618
ChangedFileNames(cf) ==
    [i \in 1..Len(cf) |-> BasenameExt(cf[i].path, Extname(cf[i].path))]

\* Array.prototype.find of line 642: the first changed file with that base name
FindByName(cf, name) ==
    LET hits == {i \in 1..Len(cf) : BasenameExt(cf[i].path, Extname(cf[i].path)) = name}
    IN  IF hits = {} THEN Null ELSE cf[CHOOSE i \in hits : \A j \in hits : i <= j].path

\* line 645
MediumIfLow(confidence) == IF confidence = "low" THEN "medium" ELSE confidence

\* line 657 without its condition
KeepIfLow_always(confidence) == "low"

\* line 657
KeepIfLow(confidence) == IF confidence = "low" THEN "low" ELSE confidence

\* lines 638-649
RECURSIVE NameEvidence(_, _, _, _)
NameEvidence(st, testFileName, names, cf) ==
    IF names = <<>> THEN st
    ELSE LET changedFileName == Head(names)
             matching == FindByName(cf, changedFileName)
             st1 ==
                 IF /\ \/ Includes(testFileName, changedFileName)
                       \/ Includes(changedFileName, testFileName)
                    /\ ~\E i \in 1..Len(st.related) : SeqIncludes(Paths(cf), st.related[i])
                    /\ matching # Null
                    /\ ~SeqIncludes(st.related, matching)
                 THEN [related |-> Append(st.related, matching),
                       confidence |-> MediumIfLow(st.confidence)]
                 ELSE st
         IN  NameEvidence(st1, testFileName, Tail(names), cf)

\* String.prototype.includes on a file's text
ContentIncludes(c, sub) == \E i \in 1..Len(c) : Includes(c[i].s, sub)

\* lines 652-659
RECURSIVE MentionEvidence(_, _, _)
MentionEvidence(st, text, changedPaths) ==
    IF changedPaths = <<>> THEN st
    ELSE LET changedPath == Head(changedPaths)
             fileName == Basename(changedPath)
             st1 == IF ContentIncludes(text, fileName)
                       /\ ~SeqIncludes(st.related, changedPath)
                    THEN [related |-> Append(st.related, changedPath),
                          confidence |-> KeepIfLow(st.confidence)]
                    ELSE st
         IN  MentionEvidence(st1, text, Tail(changedPaths))

\* lines 622-663: the record of one test file (related empty: no entry)
Classify(testFile, cf) ==
    LET st0 == [related |-> <<>>, confidence |-> "low"]
        Entry(st3) ==
            [testFile |-> testFile, relatedTo |-> st3.related, confidence |-> st3.confidence]
        Evidence(text) ==
            Entry(MentionEvidence(
                      NameEvidence(
                          ImportEvidence(st0, testFile, ExtractImports(testFile, text),
                                         Paths(cf)),
                          BasenameExt(testFile, Extname(testFile)),
                          ChangedFileNames(cf), cf),
                      text, Paths(cf)))
    IN  Evidence(ReadFileContent(Join(RepoRoot, testFile), READ_CEILING))

\* line 670
CoveredFiles(rt) == UNION {Range(rt[i].relatedTo) : i \in 1..Len(rt)}

\* lines 671-673 keeping the covered files instead
MissingOf_covered(cf, rt) ==
    SelectSeq(Paths(cf), LAMBDA p : p \in CoveredFiles(rt))

\* lines 671-673
MissingOf(cf, rt) ==
    SelectSeq(Paths(cf), LAMBDA p : p \notin CoveredFiles(rt))

\* Math.round cut down to truncation
RoundDiv_floor(n, d) == n \div d

\* Math.round(n / d) for n >= 0, d > 0.  Halves go up; the floating-point
\* quotient of the code can fall just below a half (29 of 200 files), which
\* only happens for totals that are multiples of 8.
RoundDiv(n, d) == (2 * n + d) \div (2 * d)

\* lines 675-679
CoverageOf(cf, rt) ==
    LET covered == Cardinality(CoveredFiles(rt))
        total == Len(cf)
    IN  [covered |-> covered, total |-> total,
         percentage |-> IF total > 0 THEN RoundDiv(covered * 100, total) ELSE 100]

-----------------------------------------------------------------------------
(* analyzeRisksAndImpact.  A finding line is a record: a message line      *)
(* names its rule, the file it is about and the files it lists, a how-to   *)
(* line names its advice.  The scan of the diff text (analyzeDiffPatterns) *)
(* only feeds codePatternWarnings; both are left out.                      *)

\* String.prototype.toLowerCase on the chunks that hold capitals
LowerChunk(c) ==
    CASE c = "Auth" -> "auth"
      [] c = "Permission" -> "permission"
      [] c = "Role" -> "role"
      [] c = "Model" -> "model"
      [] c = "Module" -> "module"
      [] c = "Page" -> "page"
      [] c = "Form" -> "form"
      [] c = "Search" -> "search"
      [] c = "Input" -> "input"
      [] c = "Trans" -> "trans"
      [] c = "Utils" -> "utils"
      [] OTHER -> c

ToLowerCase(s) == [i \in 1..Len(s) |-> LowerChunk(s[i])]

IncludesAny(s, subs) == \E sub \in subs : Includes(s, sub)

\* Array.prototype.slice(0, n) that keeps every element
SliceTo_all(seq, n) == seq

\* Array.prototype.slice(0, n)
SliceTo(seq, n) == SubSeq(seq, 1, IF Len(seq) < n THEN Len(seq) ELSE n)

\* Array.prototype.filter on the paths, keeping the files
FilterFiles(cf, Test(_)) == SelectSeq(cf, LAMBDA f : Test(f.path))

RECURSIVE Basenames(_)
Basenames(ps) ==
    IF ps = <<>> THEN <<>> ELSE <<Basename(Head(ps))>> \o Basenames(Tail(ps))

Message(rule, file, names, more) ==
    [rule |-> rule, file |-> file, names |-> names, more |-> more, text |-> ""]

HowTo(text) ==
    [rule |-> "how-to", file |-> <<>>, names |-> <<>>, more |-> 0, text |-> text]

\* lines 902-906
SchemaPath(p) ==
    IncludesAny(p, {<<"schema", Dot, "graphql">>, <<"schema", Dot, "gql">>,
                    <<Dot, "graphql">>})

\* lines 908-913
DBPath(p) ==
    \/ IncludesAny(p, {<<Sep, "migrations", Sep>>, <<Sep, "models", Sep>>})
    \/ IncludesAny(ToLowerCase(p), {<<"model", Dot, "js">>, <<"module", Dot, "js">>})

\* lines 915-919
AuthPath(p) == IncludesAny(ToLowerCase(p), {<<"auth">>, <<"permission">>, <<"role">>})

\* lines 921-925
APIPath(p) ==
    IncludesAny(p, {<<Sep, "api", Sep>>, <<Dot, "gql", Dot, "js">>,
                    <<Sep, "graphql", Sep>>})

\* lines 927-932
UIPath(p) ==
    \/ IncludesAny(p, {<<Sep, "components", Sep>>, <<Sep, "pages", Sep>>})
    \/ EndsWith(p, <<Dot, "jsx">>)
    \/ EndsWith(p, <<Dot, "tsx">>)

\* lines 934-938
StatePath(p) == IncludesAny(p, {<<"redux">>, <<"store">>, <<"context">>})

\* lines 940-943
UtilityPath(p) ==
    IncludesAny(p, {<<Sep, "utils", Sep>>, <<Sep, "helper", "s", Sep>>})

\* lines 945-949
ConfigPath(p) ==
    IncludesAny(p, {<<"package", Dot, "json">>, <<Dot, "env">>, <<"config", Dot>>})

\* Array.prototype.some on the paths
SomePath(cf, Test(_)) == \E i \in 1..Len(cf) : Test(cf[i].path)

RECURSIVE SumLines(_)
SumLines(cf) ==
    IF cf = <<>> THEN 0
    ELSE Head(cf).additions + Head(cf).deletions + SumLines(Tail(cf))

\* line 951
IsLargeChange(cf) == SumLines(cf) > 200

\* line 952
HasMultipleFiles(cf) == Len(cf) > 5

\* lines 953 and 1055
LargeDeletion(f) == f.deletions > f.additions /\ f.deletions > 50

HasFilesDeletion(cf) == \E i \in 1..Len(cf) : LargeDeletion(cf[i])

\* lines 956-964
RiskScore(cf, percentage) ==
      (IF SomePath(cf, SchemaPath) THEN 3 ELSE 0)
    + (IF SomePath(cf, DBPath) THEN 4 ELSE 0)
    + (IF SomePath(cf, AuthPath) THEN 4 ELSE 0)
    + (IF SomePath(cf, APIPath) THEN 2 ELSE 0)
    + (IF IsLargeChange(cf) THEN 2 ELSE 0)
    + (IF HasMultipleFiles(cf) THEN 1 ELSE 0)
    + (IF percentage < 50 THEN 3 ELSE 0)
    + (IF HasFilesDeletion(cf) THEN 2 ELSE 0)

\* lines 966-969 with the first threshold exclusive
RiskLevelOf_above(riskScore) ==
    IF riskScore > 10 THEN "Critical"
    ELSE IF riskScore >= 6 THEN "High"
    ELSE IF riskScore >= 3 THEN "Medium"
    ELSE "Low"

\* lines 966-969
RiskLevelOf(riskScore) ==
    IF riskScore >= 10 THEN "Critical"
    ELSE IF riskScore >= 6 THEN "High"
    ELSE IF riskScore >= 3 THEN "Medium"
    ELSE "Low"

\* lines 972-976
AreasAffected(cf) ==
       (IF SomePath(cf, UIPath) THEN <<"Frontend UI">> ELSE <<>>)
    \o (IF SomePath(cf, APIPath) THEN <<"Backend API">> ELSE <<>>)
    \o (IF SomePath(cf, DBPath) THEN <<"Database Layer">> ELSE <<>>)
    \o (IF SomePath(cf, AuthPath) THEN <<"Authentication/Authorization">> ELSE <<>>)
    \o (IF SomePath(cf, StatePath) THEN <<"State Management">> ELSE <<>>)

\* getTestSuggestion, lines 979-1018: the advice chosen for a consumer
GetTestSuggestion(filePath) ==
    LET fileName == ToLowerCase(Basename(filePath))
        dirPath == ToLowerCase(filePath)
    IN  IF Includes(fileName, <<"page">>) THEN "open the page"
        ELSE IF Includes(fileName, <<"drawer">>) THEN "open the drawer"
        ELSE IF IncludesAny(fileName, {<<"table">>, <<"list">>, <<"config">>})
             THEN "verify the table"
        ELSE IF Includes(fileName, <<"form">>) THEN "submit the form"
        ELSE IF IncludesAny(fileName, {<<"modal">>, <<"dialog">>}) THEN "open the modal"
        ELSE IF IncludesAny(dirPath, {<<Dot, "gql">>, <<"graphql">>, <<"queries">>})
             THEN "test the query"
        ELSE IF IncludesAny(dirPath, {<<"module">>, <<"service">>})
             THEN "test the endpoint"
        ELSE IF IncludesAny(dirPath, {<<"utils">>, <<"helper">>, <<"shared">>})
             THEN "verify the consumers"
        ELSE "verify the feature"

\* schemaFiles.flatMap(f => dependencies.direct[f] || [])
RECURSIVE FlatConsumers(_, _)
FlatConsumers(direct, ps) ==
    IF ps = <<>> THEN <<>>
    ELSE Lookup(direct, Head(ps)) \o FlatConsumers(direct, Tail(ps))

\* line 1022
SchemaFiles(cf) == Paths(FilterFiles(cf, LAMBDA p : Includes(p, <<"schema">>)))

\* lines 1021-1031; the message names the literal schema.graphql
SchemaFindings(cf, direct) ==
    LET schemaConsumers == FlatConsumers(direct, SchemaFiles(cf))
        consumerNames == Basenames(SliceTo(schemaConsumers, 3))
    IN  IF ~SomePath(cf, SchemaPath) THEN <<>>
        ELSE IF Len(schemaConsumers) > 0
             THEN << Message("schema used by", <<"schema", Dot, "graphql">>,
                             consumerNames, 0),
                     HowTo("run the query, then test the first consumer") >>
             ELSE << Message("schema changed", <<"schema", Dot, "graphql">>, <<>>, 0),
                     HowTo("run the affected queries") >>

\* line 1037
ApiFiles(cf) ==
    Paths(FilterFiles(cf, LAMBDA p : IncludesAny(p, {<<Dot, "gql", Dot, "js">>,
                                                     <<Sep, "api", Sep>>})))

\* lines 1038-1050
RECURSIVE ApiFindings(_, _)
ApiFindings(apiFiles, direct) ==
    IF apiFiles = <<>> THEN <<>>
    ELSE LET apiFile == Head(apiFiles)
             consumers == Lookup(direct, apiFile)
             here == IF Len(consumers) > 0
                     THEN << Message("api used by", Basename(apiFile),
                                     Basenames(SliceTo(consumers, 3)), 0),
                             HowTo(GetTestSuggestion(consumers[1])) >>
                     ELSE << Message("api changed", Basename(apiFile), <<>>, 0),
                             HowTo("find where the query is used") >>
         IN  here \o ApiFindings(Tail(apiFiles), direct)

\* lines 1054-1060
RECURSIVE DeletionFindings(_)
DeletionFindings(cf) ==
    IF cf = <<>> THEN <<>>
    ELSE (IF LargeDeletion(Head(cf))
          THEN << Message("large deletion", Basename(Head(cf).path), <<>>,
                          Head(cf).deletions),
                  HowTo("search for imports of deleted functions") >>
          ELSE <<>>)
         \o DeletionFindings(Tail(cf))

\* lines 1020-1060
BreakingChanges(cf, direct) ==
       SchemaFindings(cf, direct)
    \o (IF SomePath(cf, APIPath) THEN ApiFindings(ApiFiles(cf), direct) ELSE <<>>)
    \o (IF HasFilesDeletion(cf) THEN DeletionFindings(cf) ELSE <<>>)

\* line 1064
UtilFiles(cf) ==
    Paths(FilterFiles(cf, LAMBDA p : IncludesAny(p, {<<Sep, "utils", Sep>>,
                                                     <<Sep, "helper", "s", Sep>>,
                                                     <<Sep, "shared", Sep>>})))

\* lines 1065-1078
RECURSIVE UtilFindings(_, _)
UtilFindings(utilFiles, direct) ==
    IF utilFiles = <<>> THEN <<>>
    ELSE LET utilFile == Head(utilFiles)
             consumers == Lookup(direct, utilFile)
             here == IF Len(consumers) > 0
                     THEN << Message("utility used by", Basename(utilFile),
                                     Basenames(SliceTo(consumers, 4)),
                                     IF Len(consumers) > 4 THEN Len(consumers) - 4
                                     ELSE 0),
                             HowTo(GetTestSuggestion(consumers[1])) >>
                     ELSE << Message("utility changed", Basename(utilFile), <<>>, 0),
                             HowTo("search for the utility's name") >>
         IN  here \o UtilFindings(Tail(utilFiles), direct)

\* line 1083
StateFiles(cf) == Paths(FilterFiles(cf, StatePath))

\* lines 1084-1091
RECURSIVE StateFindings(_, _)
StateFindings(stateFiles, direct) ==
    IF stateFiles = <<>> THEN <<>>
    ELSE LET consumers == Lookup(direct, Head(stateFiles))
             here == IF Len(consumers) > 0
                     THEN << Message("state used by", Basename(Head(stateFiles)),
                                     Basenames(SliceTo(consumers, 4)), 0),
                             HowTo("navigate to each component") >>
                     ELSE <<>>
         IN  here \o StateFindings(Tail(stateFiles), direct)

\* lines 1094-1099
MultipleUIFindings(cf) ==
    LET componentFiles ==
            Paths(FilterFiles(cf, LAMBDA p : Includes(p, <<Sep, "components", Sep>>)))
    IN  IF SomePath(cf, UIPath) /\ HasMultipleFiles(cf)
        THEN << Message("multiple UI changes", <<>>,
                        Basenames(SliceTo(componentFiles, 5)),
                        IF Len(componentFiles) > 5 THEN Len(componentFiles) - 5 ELSE 0),
                HowTo("test the feature end-to-end") >>
        ELSE <<>>

\* line 1101 firing also without a missing test
HasMissing_always(missing) == Len(missing) >= 0

\* line 1101
HasMissing(missing) == Len(missing) > 0

\* lines 1101-1105
MissingTestFindings(missing) ==
    IF HasMissing(missing)
    THEN << Message("no tests for", <<>>, Basenames(SliceTo(missing, 3)),
                    IF Len(missing) > 3 THEN Len(missing) - 3 ELSE 0),
            HowTo("test manually or add unit tests") >>
    ELSE <<>>

\* lines 1062-1105
RegressionRisks(cf, direct, missing) ==
       (IF SomePath(cf, UtilityPath) THEN UtilFindings(UtilFiles(cf), direct) ELSE <<>>)
    \o (IF SomePath(cf, StatePath) THEN StateFindings(StateFiles(cf), direct) ELSE <<>>)
    \o MultipleUIFindings(cf)
    \o MissingTestFindings(missing)

\* lines 1109-1113
RECURSIVE DbFindings(_)
DbFindings(dbFiles) ==
    IF dbFiles = <<>> THEN <<>>
    ELSE << Message("DB changes", Basename(Head(dbFiles)), <<>>, 0),
            HowTo("query 1000+ records and time it") >>
         \o DbFindings(Tail(dbFiles))

\* lines 1109 and 1148
ModulePath(p) == IncludesAny(p, {<<"module", Dot, "js">>, <<"Module", Dot, "js">>})

\* lines 1107-1120
PerformanceConcerns(cf) ==
    LET dbFiles == Paths(FilterFiles(cf, LAMBDA p : \/ Includes(p, <<Sep, "models", Sep>>)
                                                    \/ ModulePath(p)))
        jsonbFiles ==
            Paths(FilterFiles(cf, LAMBDA p : IncludesAny(p, {<<"module", Dot, "js">>,
                                                             <<"gql", Dot, "js">>})))
    IN     (IF SomePath(cf, DBPath) THEN DbFindings(dbFiles) ELSE <<>>)
        \o (IF Len(jsonbFiles) > 0
            THEN << Message("JSONB/DB queries", <<>>, Basenames(jsonbFiles), 0),
                    HowTo("search a large dataset") >>
            ELSE <<>>)

\* line 1124 keeping only the permission files
AuthFiles_permission(cf) ==
    Paths(FilterFiles(cf, LAMBDA p : Includes(ToLowerCase(p), <<"permission">>)))

\* line 1124
AuthFiles(cf) ==
    Paths(FilterFiles(cf, LAMBDA p : IncludesAny(ToLowerCase(p),
                                                 {<<"auth">>, <<"permission">>})))

\* lines 1125-1128
RECURSIVE AuthFindings(_)
AuthFindings(authFiles) ==
    IF authFiles = <<>> THEN <<>>
    ELSE << Message("auth/permission changed", Basename(Head(authFiles)), <<>>, 0),
            HowTo("test as admin, as regular user, as guest") >>
         \o AuthFindings(Tail(authFiles))

\* lines 1132-1136
InputPath(p) ==
    IncludesAny(p, {<<"search">>, <<"Search">>, <<"form">>, <<"Form">>,
                    <<"input">>, <<"Input">>})

\* lines 1122-1144
SecurityConcerns(cf) ==
    LET inputFiles == Paths(FilterFiles(cf, InputPath))
    IN     (IF SomePath(cf, AuthPath) THEN AuthFindings(AuthFiles(cf)) ELSE <<>>)
        \o (IF Len(inputFiles) > 0
            THEN << Message("user input", <<>>, Basenames(inputFiles), 0),
                    HowTo("try SQL injection and XSS input") >>
            ELSE IF SomePath(cf, APIPath) \/ SomePath(cf, DBPath)
                 THEN << Message("API/DB changes", <<>>, <<>>, 0),
                         HowTo("try SQL injection on the changed API") >>
                 ELSE <<>>)

\* lines 1155-1158
TransformPath(p) ==
    IncludesAny(p, {<<"trans", "form">>, <<"Trans", "form">>, <<"utils">>, <<"Utils">>})

\* lines 1146-1163
DataIntegrityRisks(cf) ==
    LET moduleFiles == Paths(FilterFiles(cf, ModulePath))
        transformFiles == Paths(FilterFiles(cf, TransformPath))
    IN     (IF SomePath(cf, DBPath) /\ Len(moduleFiles) > 0
            THEN << Message("DB logic", <<>>, Basenames(moduleFiles), 0),
                    HowTo("submit empty, special and long values") >>
            ELSE <<>>)
        \o (IF Len(transformFiles) > 0 /\ ~SomePath(cf, UtilityPath)
            THEN << Message("data transformation", <<>>, Basenames(transformFiles), 0),
                    HowTo("compare the output format") >>
            ELSE <<>>)

\* lines 1165-1188
MissedConsiderations(cf, percentage, missing) ==
    LET configFiles ==
            Paths(FilterFiles(cf, LAMBDA p : IncludesAny(p, {<<"config">>, <<Dot, "env">>,
                                                             <<"package", Dot, "json">>})))
        pageFiles ==
            Paths(FilterFiles(cf, LAMBDA p : IncludesAny(p, {<<"Page", Dot, "js">>,
                                                             <<"Page", Dot, "tsx">>})))
        uiComponentFiles ==
            Paths(FilterFiles(cf, LAMBDA p : /\ Includes(p, <<Sep, "components", Sep>>)
                                             /\ \/ EndsWith(p, <<Dot, "js">>)
                                                \/ EndsWith(p, <<Dot, "jsx">>)
                                                \/ EndsWith(p, <<Dot, "tsx">>)))
    IN     (IF SomePath(cf, ConfigPath)
            THEN <<Message("config changed", <<>>, Basenames(configFiles), 0)>>
            ELSE <<>>)
        \o (IF SomePath(cf, SchemaPath) /\ ~SomePath(cf, LAMBDA p : Includes(p, <<"test">>))
            THEN <<Message("schema without tests", <<"schema", Dot, "graphql">>, <<>>, 0)>>
            ELSE <<>>)
        \o (IF Len(pageFiles) > 0
            THEN <<Message("page timers", <<>>, Basenames(pageFiles), 0)>>
            ELSE <<>>)
        \o (IF Len(uiComponentFiles) > 0
            THEN <<Message("UI changes", <<>>, Basenames(SliceTo(uiComponentFiles, 3)), 0)>>
            ELSE <<>>)
        \o (IF percentage < 70 /\ Len(missing) > 0
            THEN <<Message("test coverage", <<>>, Basenames(SliceTo(missing, 2)),
                           percentage)>>
            ELSE <<>>)

\* the consumers pushed at lines 1045 and 1073
RECURSIVE ConsumersOf(_, _, _)
ConsumersOf(ps, direct, n) ==
    IF ps = <<>> THEN <<>>
    ELSE SliceTo(Lookup(direct, Head(ps)), n) \o ConsumersOf(Tail(ps), direct, n)

\* the pushes of lines 1032-1033, 1045, 1051, 1073, 1079 and 1129, in that order
CriticalFilesToTest(cf, direct) ==
       (IF SomePath(cf, SchemaPath)
        THEN SchemaFiles(cf) \o SliceTo(FlatConsumers(direct, SchemaFiles(cf)), 5)
        ELSE <<>>)
    \o (IF SomePath(cf, APIPath)
        THEN ConsumersOf(ApiFiles(cf), direct, 3) \o ApiFiles(cf)
        ELSE <<>>)
    \o (IF SomePath(cf, UtilityPath)
        THEN ConsumersOf(UtilFiles(cf), direct, 4) \o UtilFiles(cf)
        ELSE <<>>)
    \o (IF SomePath(cf, AuthPath) THEN AuthFiles(cf) ELSE <<>>)

\* what Array.prototype.splice(0, n) would leave in the array it is called on
AfterSlice_splice(seq, n) == SubSeq(seq, n + 1, Len(seq))

\* what Array.prototype.slice(0, n) leaves in the array it is called on
AfterSlice(seq, n) == seq

RECURSIVE AfterSlices(_, _)
AfterSlices(seq, ns) ==
    IF ns = <<>> THEN seq ELSE AfterSlices(AfterSlice(seq, Head(ns)), Tail(ns))

\* dependencies.direct after the call: its lists are read at lines 1023, 1040,
\* 1066 and 1085 and sliced at lines 1043, 1045, 1069, 1073 and 1087
DirectAfter(cf, direct) ==
    IF DOMAIN direct = {} THEN direct
    ELSE [p \in DOMAIN direct |->
             AfterSlices(direct[p],
                    (IF SomePath(cf, APIPath) /\ SeqIncludes(ApiFiles(cf), p)
                     THEN <<3, 3>> ELSE <<>>)
                 \o (IF SomePath(cf, UtilityPath) /\ SeqIncludes(UtilFiles(cf), p)
                     THEN <<4, 4>> ELSE <<>>)
                 \o (IF SomePath(cf, StatePath) /\ SeqIncludes(StateFiles(cf), p)
                     THEN <<4>> ELSE <<>>))]

\* testAnalysis.missingTests after the call: sliced at lines 1102 and 1187
MissingAfter(percentage, missing) ==
    AfterSlices(missing, (IF Len(missing) > 0 THEN <<3>> ELSE <<>>)
                         \o (IF percentage < 70 /\ Len(missing) > 0 THEN <<2>> ELSE <<>>))

\* lines 853-865 and 1190
AnalyzeRisksAndImpact(cf, percentage, missing, direct) ==
    [riskLevel |-> RiskLevelOf(RiskScore(cf, percentage)),
     breakingChanges |-> BreakingChanges(cf, direct),
     regressionRisks |-> RegressionRisks(cf, direct, missing),
     performanceConcerns |-> PerformanceConcerns(cf),
     securityConcerns |-> SecurityConcerns(cf),
     dataIntegrityRisks |-> DataIntegrityRisks(cf),
     areasAffected |-> AreasAffected(cf),
     criticalFilesToTest |-> CriticalFilesToTest(cf, direct),
     missedConsiderations |-> MissedConsiderations(cf, percentage, missing),
     affectedByFile |-> direct]

-----------------------------------------------------------------------------
(* Bounds of the instances *)

MaxEdges == 5      \* import statements of a graph-shaped repository
MaxChanged == 1    \* length of the changed-file list
MaxImports == 2    \* import statements and paddings of a tree-shaped repository
MaxTestItems == 3  \* imports and mentions in the test files of a repository with tests

\* files of a graph-shaped repository: a reverse-import path one hop longer
\* than the walk follows (MAX_DEPENDENCY_DEPTH + 2 hops) fits in
NumFiles == MAX_DEPENDENCY_DEPTH + 3

-----------------------------------------------------------------------------
(* Repositories and requests *)

FileNames == <<"f1", "f2", "f3", "f4", "f5", "f6", "f7">>

GraphFile(i) == <<FileNames[i], Dot, "ts">>

\* import ... from './fj.ts'
GraphImport(j) == [kind |-> "es6", s |-> <<Dot, Sep>> \o GraphFile(j), size |-> 1]

\* <<i, j>>: file i imports file j; j is one of the two files listed before i
\* or the file listed after it (chains, diamonds, cycles of any length)
GraphEdges ==
    {e \in (1..NumFiles) \X (1..NumFiles) :
        e[1] # e[2] /\ e[1] - e[2] <= 2 /\ e[2] - e[1] <= 1}

\* targets of file i in ascending order
RECURSIVE ImportsOf(_, _, _)
ImportsOf(E, i, j) ==
    IF j > NumFiles THEN <<>>
    ELSE (IF <<i, j>> \in E THEN <<GraphImport(j)>> ELSE <<>>) \o ImportsOf(E, i, j + 1)

\* a flat repository of NumFiles files that import each other with literal,
\* extension-bearing specifiers, at most MaxEdges import statements in all
GraphDisk(E) ==
    /\ files = [i \in 1..NumFiles |-> GraphFile(i)]
    /\ denied = {}
    /\ content = [p \in {GraphFile(i) : i \in 1..NumFiles} |->
                    LET i == CHOOSE k \in 1..NumFiles : GraphFile(k) = p
                    IN  ImportsOf(E, i, 1)]

InitGraphDisk ==
    \E E \in SUBSET GraphEdges : Cardinality(E) <= MaxEdges /\ GraphDisk(E)

\* imports around the last file: its two neighbours import it and each other,
\* and a chain of importers hangs on the nearer one
ShortcutEdges ==
    {<<NumFiles - 2, NumFiles>>, <<NumFiles - 1, NumFiles>>, <<NumFiles, NumFiles - 1>>,
     <<NumFiles - 1, NumFiles - 2>>, <<NumFiles - 2, NumFiles - 1>>,
     <<NumFiles - 3, NumFiles - 1>>, <<NumFiles - 4, NumFiles - 3>>}

InitShortcutDisk == \E E \in SUBSET ShortcutEdges : GraphDisk(E)

TreeFiles ==
    << <<"a", Dot, "ts">>, <<"lib", Sep, "b", Dot, "ts">>,
       <<"lib", Sep, "index", Dot, "ts">> >>

\* what a file of the tree may hold: imports with and without extension, of a
\* directory, of a parent directory, of a package, and text that fills the
\* read ceiling
TreeItems ==
    { [kind |-> "es6", s |-> <<Dot, Sep, "lib", Sep, "b">>, size |-> 1],
      [kind |-> "es6", s |-> <<Dot, Sep, "lib", Sep, "b", Dot, "ts">>, size |-> 1],
      [kind |-> "es6", s |-> <<Dot, Sep, "lib">>, size |-> 1],
      [kind |-> "require", s |-> Up \o <<Sep, "a">>, size |-> 1],
      [kind |-> "es6", s |-> <<"react">>, size |-> 1],
      [kind |-> "text", s |-> <<"padding">>, size |-> READ_CEILING] }

\* the items of statement list q that belong to file number i
ItemsOf(q, i) ==
    LET mine == SelectSeq(q, LAMBDA st : st[1] = i)
    IN  [n \in 1..Len(mine) |-> mine[n][2]]

\* a small tree with a subdirectory and an index file, at most MaxImports
\* items in all
InitTreeDisk ==
    \E k \in 0..MaxImports :
        \E q \in [1..k -> (1..Len(TreeFiles)) \X TreeItems] :
            /\ \A n \in 1..(k - 1) : q[n][1] <= q[n + 1][1]
            /\ files = TreeFiles
            /\ denied = {}
            /\ content = [p \in Range(TreeFiles) |->
                            ItemsOf(q, CHOOSE i \in 1..Len(TreeFiles) : TreeFiles[i] = p)]

\* a repository with three source files, a test next to a.ts and a test in
\* one of the TEST_DIRECTORIES, in readdir order
SourceFiles ==
    << <<"src", Sep, "a", Dot, "ts">>, <<"src", Sep, "b", Dot, "ts">>,
       <<"src", Sep, "c", Dot, "ts">> >>

TestFiles ==
    << <<"src", Sep, "a", Dot, "test", Dot, "ts">>,
       <<"tests", Sep, "unit", Sep, "backend", Sep, "b", Dot, "test", Dot, "ts">> >>

\* what a test file may hold: an import of a sibling a.ts, an import of
\* src/b.ts from the test directory, and plain mentions of b.ts and c.ts
TestItems ==
    { [kind |-> "es6", s |-> <<Dot, Sep, "a", Dot, "ts">>, size |-> 1],
      [kind |-> "es6",
       s |-> Up \o <<Sep>> \o Up \o <<Sep>> \o Up \o <<Sep, "src", Sep, "b", Dot, "ts">>,
       size |-> 1],
      [kind |-> "text", s |-> <<"b", Dot, "ts">>, size |-> 1],
      [kind |-> "text", s |-> <<"c", Dot, "ts">>, size |-> 1] }

InitTestsDisk ==
    \E k \in 0..MaxTestItems :
        \E q \in [1..k -> (1..Len(TestFiles)) \X TestItems] :
            /\ \A n \in 1..(k - 1) : q[n][1] <= q[n + 1][1]
            /\ files = <<TestFiles[1]>> \o SourceFiles \o <<TestFiles[2]>>
            /\ denied = {}
            /\ content = [p \in Range(TestFiles) \cup Range(SourceFiles) |->
                            IF p \in Range(TestFiles)
                            THEN ItemsOf(q, CHOOSE i \in 1..Len(TestFiles) : TestFiles[i] = p)
                            ELSE <<>>]

\* a repository with an output directory, a package directory and source
\* directories, one of them named builder, in readdir order
DirsFiles ==
    << <<"build", Sep, "out", Dot, "js">>,
       <<"node_modules", Sep, "pkg", Sep, "index", Dot, "js">>,
       <<"src", Sep, "app", Dot, "ts">>,
       <<"src", Sep, "build", "er", Sep, "make", Dot, "ts">>,
       <<"src", Sep, "lib", Sep, "util", Dot, "ts">> >>

\* <<i, s>>: file number i may hold  import ... from 's'
DirsStatements ==
    << <<1, Up \o <<Sep, "src", Sep, "app", Dot, "ts">> >>,
       <<2, Up \o <<Sep>> \o Up \o <<Sep, "src", Sep, "app", Dot, "ts">> >>,
       <<3, <<Dot, Sep, "build", "er", Sep, "make", Dot, "ts">> >>,
       <<3, <<Dot, Sep, "lib", Sep, "util", Dot, "ts">> >>,
       <<4, Up \o <<Sep, "lib", Sep, "util", Dot, "ts">> >>,
       <<5, Up \o <<Sep, "app", Dot, "ts">> >> >>

\* the entries that may refuse access: a directory, a file in it, another file
DirsDenied ==
    {{}, {<<"src", Sep, "lib">>}, {DirsFiles[5]}, {DirsFiles[3]}}

\* the import statements of file number i, among the chosen statements S
StatementsOf(S, i) ==
    LET mine == SelectSeq([n \in 1..Len(DirsStatements) |-> n],
                          LAMBDA n : n \in S /\ DirsStatements[n][1] = i)
    IN  [k \in 1..Len(mine) |->
            [kind |-> "es6", s |-> DirsStatements[mine[k]][2], size |-> 1]]

InitDirsDisk ==
    \E S \in SUBSET (1..Len(DirsStatements)) : \E D \in DirsDenied :
        /\ files = DirsFiles
        /\ denied = D
        /\ content = [p \in Range(DirsFiles) |->
                        StatementsOf(S, CHOOSE i \in 1..Len(DirsFiles) : DirsFiles[i] = p)]

Changed(p, a, d) == [path |-> p, additions |-> a, deletions |-> d]

\* the lists of at most n distinct paths of S, each with one added line
ChangeLists(S, n) ==
    UNION {{[i \in 1..k |-> Changed(q[i], 1, 0)] :
              q \in {r \in [1..k -> S] : \A a, b \in 1..k : a # b => r[a] # r[b]}} :
           k \in 0..n}

NoCoverage == [covered |-> 0, total |-> 0, percentage |-> 0]

\* no build of the dependency index has finished
NoIndex == [built |-> FALSE, tree |-> <<>>, map |-> <<>>]

\* resolveImportPath has not been called
NoCall ==
    [called |-> FALSE, importPath |-> <<>>, fromFile |-> <<>>, repoRoot |-> <<>>,
     result |-> Null]

\* the locals of a handler that has not been called
IdleFrame ==
    [pc |-> "idle", tool |-> "none", changedFiles |-> <<>>, gitOk |-> TRUE,
     error |-> "none", allFiles |-> <<>>, fileIdx |-> 0, dependencyMap |-> <<>>,
     directDeps |-> <<>>, indirectDeps |-> <<>>, allAffected |-> <<>>,
     processed |-> {}, expansions |-> <<>>, testFiles |-> <<>>, testIdx |-> 0,
     relatedTests |-> <<>>, testCoverage |-> NoCoverage, missingTests |-> <<>>,
     risks |-> [riskLevel |-> "none"]]

\* no risk record has been built
NoRisks == [riskLevel |-> "none"]

(* Inputs of the risk engine: one file per path-based signal, files that   *)
(* raise no signal, the line counts on the first file, and test and        *)
(* dependency results about these files.                                   *)

FeatureFiles ==
    << <<"schema", Dot, "graphql">>,
       <<"src", Sep, "models", Sep, "user", Dot, "js">>,
       <<"src", Sep, "auth", Sep, "login", Dot, "js">>,
       <<"src", Sep, "api", Sep, "users", Dot, "js">> >>

PlainNames == <<"p1", "p2", "p3", "p4", "p5", "p6">>

PlainFiles(n) == [i \in 1..n |-> <<"src", Sep, PlainNames[i], Dot, "ts">>]

\* additions and deletions around the limits of lines 951 and 953
LineStats == {<<1, 0>>, <<0, 50>>, <<0, 51>>, <<200, 0>>, <<201, 0>>, <<0, 201>>}

RiskChangeLists ==
    {LET paths == SelectSeq(FeatureFiles, LAMBDA p : p \in S) \o PlainFiles(n)
     IN  [i \in 1..Len(paths) |->
             IF i = 1 THEN Changed(paths[1], st[1], st[2]) ELSE Changed(paths[i], 0, 0)] :
     S \in SUBSET Range(FeatureFiles), n \in {0, 1, Len(PlainNames)}, st \in LineStats}

RiskTest == <<"tests", Sep, "unit", Sep, "backend", Sep, "all", Dot, "test", Dot, "js">>

RiskConsumer == <<"src", Sep, "app", Dot, "js">>

\* the state in which analyzePR reaches line 1488
InitRiskInputs ==
    \E cf \in RiskChangeLists : \E covered \in 0..Len(cf) : \E used \in BOOLEAN :
        LET rt == IF covered = 0 THEN <<>>
                  ELSE <<[testFile |-> RiskTest,
                          relatedTo |-> SubSeq(Paths(cf), 1, covered),
                          confidence |-> "high"]>>
            direct == [p \in Range(Paths(cf)) |->
                          IF used /\ p = cf[1].path THEN <<RiskConsumer>> ELSE <<>>]
        IN  /\ files = <<>>
            /\ content = <<>>
            /\ denied = {}
            /\ pc = "risk"
            /\ tool = "analyze_pr"
            /\ changedFiles = cf
            /\ gitOk = TRUE
            /\ error = "none"
            /\ expansions = IF used /\ cf # <<>> THEN <<RiskConsumer>> ELSE <<>>
            /\ lastIndex = NoIndex
            /\ suspended = IdleFrame
            /\ lastResolve = NoCall
            /\ allFiles = <<>>
            /\ fileIdx = 1
            /\ dependencyMap = IF used /\ cf # <<>>
                               THEN Put(EmptyMap, cf[1].path, <<RiskConsumer>>)
                               ELSE EmptyMap
            /\ directDeps = direct
            /\ indirectDeps = EmptyMap
            /\ allAffected = SeedAffected(cf)
                                 \o (IF used /\ cf # <<>> THEN <<RiskConsumer>> ELSE <<>>)
            /\ processed = Range(Paths(cf)) \cup Values(direct)
            /\ testFiles = IF covered = 0 THEN <<>> ELSE <<RiskTest>>
            /\ testIdx = Len(testFiles) + 1
            /\ relatedTests = rt
            /\ testCoverage = CoverageOf(cf, rt)
            /\ missingTests = MissingOf(cf, rt)
            /\ risks = NoRisks

\* changed files that the rules of lines 1020-1130 pick up: a utility, a file
\* under /api/ and /utils/ at once, two auth files and a store
RuleFiles ==
    << <<"src", Sep, "utils", Sep, "dates", Dot, "js">>,
       <<"src", Sep, "api", Sep, "utils", Sep, "money", Dot, "js">>,
       <<"src", Sep, "auth", Sep, "login", Dot, "js">>,
       <<"src", Sep, "Auth", "Guard", Dot, "js">>,
       <<"src", Sep, "store", Sep, "cart", Dot, "js">> >>

ViewNames == <<"v1", "v2", "v3", "v4", "v5", "v6">>

\* the files that import the changed files, in the order of the index
Consumers == [i \in 1..Len(ViewNames) |-> <<"src", Sep, "views", Sep, ViewNames[i], Dot, "js">>]

\* the state in which analyzePR reaches line 1488 when every changed file has
\* the same first n dependents
InitFindingInputs ==
    \E S \in SUBSET Range(RuleFiles) : \E n \in 0..Len(Consumers) : \E tested \in BOOLEAN :
        LET paths == SelectSeq(RuleFiles, LAMBDA p : p \in S)
            cf == [i \in 1..Len(paths) |-> Changed(paths[i], 1, 0)]
            dependents == IF cf = <<>> THEN <<>> ELSE SubSeq(Consumers, 1, n)
            rt == IF tested /\ cf # <<>>
                  THEN <<[testFile |-> RiskTest, relatedTo |-> paths,
                          confidence |-> "high"]>>
                  ELSE <<>>
            direct == [p \in Range(paths) |-> dependents]
        IN  /\ files = <<>>
            /\ content = <<>>
            /\ denied = {}
            /\ pc = "risk"
            /\ tool = "analyze_pr"
            /\ changedFiles = cf
            /\ gitOk = TRUE
            /\ error = "none"
            /\ expansions = dependents
            /\ lastIndex = NoIndex
            /\ suspended = IdleFrame
            /\ lastResolve = NoCall
            /\ allFiles = <<>>
            /\ fileIdx = 1
            /\ dependencyMap = (IF n = 0 THEN EmptyMap ELSE direct)
            /\ directDeps = direct
            /\ indirectDeps = EmptyMap
            /\ allAffected = SeedAffected(cf) \o dependents
            /\ processed = Range(paths) \cup Range(dependents)
            /\ testFiles = IF rt = <<>> THEN <<>> ELSE <<RiskTest>>
            /\ testIdx = Len(testFiles) + 1
            /\ relatedTests = rt
            /\ testCoverage = CoverageOf(cf, rt)
            /\ missingTests = MissingOf(cf, rt)
            /\ risks = NoRisks

InitRequest ==
    /\ pc = "idle"
    /\ tool = "none"
    /\ changedFiles = <<>>
    /\ gitOk = TRUE
    /\ error = "none"
    /\ expansions = <<>>
    /\ lastIndex = NoIndex
    /\ suspended = IdleFrame
    /\ lastResolve = NoCall
    /\ allFiles = <<>>
    /\ fileIdx = 0
    /\ dependencyMap = EmptyMap
    /\ directDeps = EmptyMap
    /\ indirectDeps = EmptyMap
    /\ allAffected = <<>>
    /\ processed = {}
    /\ testFiles = <<>>
    /\ testIdx = 0
    /\ relatedTests = <<>>
    /\ testCoverage = NoCoverage
    /\ missingTests = <<>>
    /\ risks = NoRisks

-----------------------------------------------------------------------------
(* The tool-call handler *)

\* the names the handler knows, lines 1618, 1753 and 1793
Tools == {"analyze_pr", "analyze_indirect_dependencies", "analyze_test_coverage"}

\* lines 331-347: the files of the diff summary, [] when git fails
GetChangedFiles(ok, cf) == IF ok THEN cf ELSE <<>>

\* the catch of lines 1835-1840: whatever the try block throws leaves the
\* handler as an McpError with the code InternalError
Rethrown(thrown) == "InternalError"

\* lines 1613-1615 with git's answer (ok: the diff summary was produced, cf: its
\* files); the first await of the tool.  A name that is no tool throws at
\* line 1831 and leaves through the catch of line 1835.
Call(t, ok, cf) ==
    /\ pc = "idle"
    /\ tool' = t
    /\ gitOk' = (ok \/ t \notin Tools)
    /\ changedFiles' = IF t \in Tools THEN GetChangedFiles(ok, cf) ELSE <<>>
    /\ error' = IF t \in Tools THEN "none" ELSE Rethrown("MethodNotFound")
    /\ pc' = IF t \notin Tools THEN "done"
             ELSE IF t = "analyze_indirect_dependencies" THEN "deps" ELSE "tests"
    /\ UNCHANGED <<diskVars, otherVars, depVars, testVars, risks>>

\* line 511 starting from the map an earlier call built
FreshIndex_kept(earlier) == earlier.map

\* line 511: the map starts empty, whatever an earlier call built
FreshIndex(earlier) == EmptyMap

\* findIndirectDependencies, lines 503-511
DepsStart ==
    /\ pc = "deps"
    /\ allAffected' = SeedAffected(changedFiles)
    /\ allFiles' = GetAllSourceFiles
    /\ fileIdx' = 1
    /\ dependencyMap' = FreshIndex(lastIndex)
    /\ directDeps' = EmptyMap
    /\ indirectDeps' = EmptyMap
    /\ processed' = {}
    /\ expansions' = <<>>
    /\ pc' = "index"
    /\ UNCHANGED <<diskVars, otherVars, reqVars, testVars, risks>>

\* findIndirectDependencies, one round of the loop of lines 513-530
IndexFile ==
    /\ pc = "index"
    /\ fileIdx <= Len(allFiles)
    /\ LET file == allFiles[fileIdx]
           text == ReadFileContent(Join(RepoRoot, file), READ_CEILING)
       IN  dependencyMap' = AddEdges(dependencyMap, file, ExtractImports(file, text))
    /\ fileIdx' = fileIdx + 1
    /\ UNCHANGED <<diskVars, otherVars, pc, reqVars, allFiles, directDeps,
                   indirectDeps, allAffected, processed, expansions, testVars,
                   risks>>

\* findIndirectDependencies, lines 532-573
DepsWalk ==
    /\ pc = "index"
    /\ fileIdx > Len(allFiles)
    /\ LET st0 == [directDeps |-> EmptyMap, indirectDeps |-> EmptyMap,
                   allAffected |-> allAffected,
                   processed |-> Range(Paths(changedFiles)), expansions |-> <<>>]
           st1 == DirectPass(st0, dependencyMap, Paths(changedFiles))
           st2 == IndirectPass(st1, dependencyMap, Paths(changedFiles))
       IN  /\ directDeps' = st2.directDeps
           /\ indirectDeps' = st2.indirectDeps
           /\ allAffected' = st2.allAffected
           /\ processed' = st2.processed
           /\ expansions' = st2.expansions
    /\ lastIndex' = [built |-> TRUE, tree |-> content, map |-> dependencyMap]
    /\ pc' = IF tool = "analyze_pr" THEN "risk" ELSE "done"
    /\ UNCHANGED <<diskVars, suspended, lastResolve, reqVars, allFiles, fileIdx,
                   dependencyMap, testVars, risks>>

\* line 662 without the condition of line 661
PushEntry_always(rt, entry) == Append(rt, entry)

\* lines 661-663
PushEntry(rt, entry) == IF Len(entry.relatedTo) > 0 THEN Append(rt, entry) ELSE rt

\* findRelatedTests, lines 582-619
TestsCollect ==
    /\ pc = "tests"
    /\ testFiles' = ProbeAll(ScanAll(TEST_DIRECTORIES), Paths(changedFiles))
    /\ testIdx' = 1
    /\ relatedTests' = <<>>
    /\ testCoverage' = NoCoverage
    /\ missingTests' = <<>>
    /\ pc' = "classify"
    /\ UNCHANGED <<diskVars, otherVars, reqVars, depVars, risks>>

\* findRelatedTests, one round of the loop of lines 621-667
ClassifyTest ==
    /\ pc = "classify"
    /\ testIdx <= Len(testFiles)
    /\ relatedTests' = PushEntry(relatedTests, Classify(testFiles[testIdx], changedFiles))
    /\ testIdx' = testIdx + 1
    /\ UNCHANGED <<diskVars, otherVars, pc, reqVars, depVars, testFiles,
                   testCoverage, missingTests, risks>>

\* findRelatedTests, lines 669-681
TestsFinish ==
    /\ pc = "classify"
    /\ testIdx > Len(testFiles)
    /\ missingTests' = MissingOf(changedFiles, relatedTests)
    /\ testCoverage' = CoverageOf(changedFiles, relatedTests)
    /\ pc' = IF tool = "analyze_pr" THEN "deps" ELSE "done"
    /\ UNCHANGED <<diskVars, otherVars, reqVars, depVars, testFiles,
                   testIdx, relatedTests, risks>>

\* analyzePR, line 1488
Risk ==
    /\ pc = "risk"
    /\ risks' = AnalyzeRisksAndImpact(changedFiles, testCoverage.percentage,
                                      missingTests, directDeps)
    /\ directDeps' = DirectAfter(changedFiles, directDeps)
    /\ missingTests' = MissingAfter(testCoverage.percentage, missingTests)
    /\ pc' = "done"
    /\ UNCHANGED <<diskVars, otherVars, reqVars, allFiles, fileIdx, dependencyMap,
                   indirectDeps, allAffected, processed, expansions, testFiles,
                   testIdx, relatedTests, testCoverage>>

\* the handler returns its text; nothing of the request is kept
Return ==
    /\ pc = "done"
    /\ pc' = "idle"
    /\ tool' = "none"
    /\ changedFiles' = <<>>
    /\ gitOk' = TRUE
    /\ error' = "none"
    /\ expansions' = <<>>
    /\ allFiles' = <<>>
    /\ fileIdx' = 0
    /\ dependencyMap' = EmptyMap
    /\ directDeps' = EmptyMap
    /\ indirectDeps' = EmptyMap
    /\ allAffected' = <<>>
    /\ processed' = {}
    /\ testFiles' = <<>>
    /\ testIdx' = 0
    /\ relatedTests' = <<>>
    /\ testCoverage' = NoCoverage
    /\ missingTests' = <<>>
    /\ risks' = NoRisks
    /\ UNCHANGED <<diskVars, otherVars>>

\* between two calls a file of the repository is rewritten without its
\* statements
EditFile ==
    /\ pc = "idle"
    /\ \E p \in DOMAIN content :
           /\ content[p] # <<>>
           /\ content' = [content EXCEPT ![p] = <<>>]
    /\ UNCHANGED <<files, denied, pc, reqVars, depVars, testVars, risks, otherVars>>

\* the locals of the running handler
Frame ==
    [pc |-> pc, tool |-> tool, changedFiles |-> changedFiles, gitOk |-> gitOk,
     error |-> error, allFiles |-> allFiles, fileIdx |-> fileIdx,
     dependencyMap |-> dependencyMap, directDeps |-> directDeps,
     indirectDeps |-> indirectDeps, allAffected |-> allAffected,
     processed |-> processed, expansions |-> expansions, testFiles |-> testFiles,
     testIdx |-> testIdx, relatedTests |-> relatedTests,
     testCoverage |-> testCoverage, missingTests |-> missingTests, risks |-> risks]

\* a dependencyMap at module level: the handler that resumes finds the map as
\* the other handler left it
OwnMap_shared(running, saved) == running

\* line 511: dependencyMap is a local of the call, the handler that resumes
\* finds its own
OwnMap(running, saved) == saved

\* the running handler waits at an await and the event loop resumes the other
\* handler (or is ready for its call)
Switch ==
    /\ suspended' = Frame
    /\ pc' = suspended.pc
    /\ tool' = suspended.tool
    /\ changedFiles' = suspended.changedFiles
    /\ gitOk' = suspended.gitOk
    /\ error' = suspended.error
    /\ allFiles' = suspended.allFiles
    /\ fileIdx' = suspended.fileIdx
    /\ dependencyMap' = OwnMap(dependencyMap, suspended.dependencyMap)
    /\ directDeps' = suspended.directDeps
    /\ indirectDeps' = suspended.indirectDeps
    /\ allAffected' = suspended.allAffected
    /\ processed' = suspended.processed
    /\ expansions' = suspended.expansions
    /\ testFiles' = suspended.testFiles
    /\ testIdx' = suspended.testIdx
    /\ relatedTests' = suspended.relatedTests
    /\ testCoverage' = suspended.testCoverage
    /\ missingTests' = suspended.missingTests
    /\ risks' = suspended.risks
    /\ UNCHANGED <<diskVars, lastIndex, lastResolve>>

-----------------------------------------------------------------------------
(* analyze_indirect_dependencies on graph-shaped repositories *)

CallDeps ==
    \E cf \in ChangeLists(Range(files), MaxChanged) :
        Call("analyze_indirect_dependencies", TRUE, cf)

InitGraph == InitGraphDisk /\ InitRequest

NextDeps == CallDeps \/ DepsStart \/ IndexFile \/ DepsWalk \/ Return

SpecGraph == InitGraph /\ [][NextDeps]_vars

(* analyze_indirect_dependencies on repositories with shortcuts *)

InitOrder == InitShortcutDisk /\ InitRequest

SpecOrder == InitOrder /\ [][NextDeps]_vars

(* analyze_indirect_dependencies on repositories with directories *)

InitDirs == InitDirsDisk /\ InitRequest

SpecDirs == InitDirs /\ [][NextDeps]_vars

(* analyze_indirect_dependencies on tree-shaped repositories *)

InitTree == InitTreeDisk /\ InitRequest

SpecTree == InitTree /\ [][NextDeps]_vars


(* analyze_test_coverage on repositories with tests *)

CallTests ==
    \E cf \in ChangeLists(Range(SourceFiles), Len(SourceFiles)) :
        Call("analyze_test_coverage", TRUE, cf)

InitTests == InitTestsDisk /\ InitRequest

NextTests == CallTests \/ TestsCollect \/ ClassifyTest \/ TestsFinish \/ Return

SpecTests == InitTests /\ [][NextTests]_vars

\* sources with the same and with nested base names, in src and in a
\* configured test directory
NamedSources ==
    << <<"src", Sep, "a", Dot, "js">>,
       <<"src", Sep, "a", Dot, "ts">>,
       <<"src", Sep, "a", "b", Dot, "ts">>,
       <<"tests", Sep, "unit", Sep, "backend", Sep, "a", Dot, "ts">> >>

\* their tests: siblings found by the probes and a file of a listed directory
NamedTests ==
    << <<"src", Sep, "a", Dot, "test", Dot, "ts">>,
       <<"src", Sep, "a", "b", Dot, "test", Dot, "ts">>,
       <<"tests", Sep, "unit", Sep, "backend", Sep, "a", Dot, "test", Dot, "ts">> >>

\* what such a test may hold: an import of its sibling a.ts or a mention of ab.ts
NamedItems ==
    { [kind |-> "es6", s |-> <<Dot, Sep, "a", Dot, "ts">>, size |-> 1],
      [kind |-> "text", s |-> <<"a", "b", Dot, "ts">>, size |-> 1] }

\* every test holds at most one item
InitNamesDisk ==
    \E c \in [1..Len(NamedTests) -> SUBSET NamedItems] :
        /\ \A i \in 1..Len(NamedTests) : Cardinality(c[i]) <= 1
        /\ files = <<NamedSources[1], NamedTests[1], NamedSources[2], NamedTests[2],
                     NamedSources[3], NamedTests[3], NamedSources[4]>>
        /\ denied = {}
        /\ content = [p \in Range(NamedTests) \cup Range(NamedSources) |->
                        IF p \in Range(NamedTests)
                        THEN LET Held(S) == IF S = {} THEN <<>>
                                            ELSE <<CHOOSE it \in S : TRUE>>
                             IN  Held(c[CHOOSE i \in 1..Len(NamedTests) : NamedTests[i] = p])
                        ELSE <<>>]

\* one or two of the sources changed
CallNames ==
    \E cf \in ChangeLists(Range(NamedSources), 2) :
        Call("analyze_test_coverage", TRUE, cf)

InitNames == InitNamesDisk /\ InitRequest

NextNames == CallNames \/ TestsCollect \/ ClassifyTest \/ TestsFinish \/ Return

SpecNames == InitNames /\ [][NextNames]_vars

(* The risk engine on its own *)

InitRisk == InitRiskInputs

NextRisk == Risk \/ Return

SpecRisk == InitRisk /\ [][NextRisk]_vars

SpecFindings == InitFindingInputs /\ [][NextRisk]_vars

(* The server with its three tools *)

\* a tool name the server does not offer
UnknownTool == "analyze_everything"

CallTool ==
    \E t \in Tools \cup {UnknownTool} : \E ok \in BOOLEAN :
        \E cf \in ChangeLists(Range(files), 1) : Call(t, ok, cf)

Init == (InitTestsDisk \/ InitTreeDisk) /\ InitRequest

(* Two calls in flight at a time *)

\* the repository with tests: the test next to a.ts holds one item, the other
\* test imports src/b.ts
InitPairDisk ==
    \E item \in TestItems :
        /\ files = <<TestFiles[1]>> \o SourceFiles \o <<TestFiles[2]>>
        /\ denied = {}
        /\ content = [p \in Range(TestFiles) \cup Range(SourceFiles) |->
                        IF p = TestFiles[1] THEN <<item>>
                        ELSE IF p = TestFiles[2]
                        THEN <<[kind |-> "es6",
                                s |-> Up \o <<Sep>> \o Up \o <<Sep>> \o Up
                                         \o <<Sep, "src", Sep, "b", Dot, "ts">>,
                                size |-> 1]>>
                        ELSE <<>>]

CallPair ==
    \E t \in Tools : \E cf \in ChangeLists(Range(SourceFiles), 1) : Call(t, TRUE, cf)

InitPair == InitPairDisk /\ InitRequest

NextPair ==
    \/ CallPair
    \/ TestsCollect
    \/ ClassifyTest
    \/ TestsFinish
    \/ DepsStart
    \/ IndexFile
    \/ DepsWalk
    \/ Risk
    \/ Return
    \/ Switch

SpecPair == InitPair /\ [][NextPair]_vars

(* The server on a repository that is edited between the calls *)

CallRerun ==
    \E t \in Tools : \E cf \in ChangeLists(Range(files), 1) : Call(t, TRUE, cf)

NextRerun ==
    \/ CallRerun
    \/ TestsCollect
    \/ ClassifyTest
    \/ TestsFinish
    \/ DepsStart
    \/ IndexFile
    \/ DepsWalk
    \/ Risk
    \/ Return
    \/ EditFile

\* the small tree, each file with one of the items or empty
InitRerunDisk ==
    \E c \in [1..Len(TreeFiles) -> SUBSET TreeItems] :
        /\ \A i \in 1..Len(TreeFiles) : Cardinality(c[i]) <= 1
        /\ files = TreeFiles
        /\ denied = {}
        /\ content = [p \in Range(TreeFiles) |->
                        LET Held(S) == IF S = {} THEN <<>> ELSE <<CHOOSE it \in S : TRUE>>
                        IN  Held(c[CHOOSE i \in 1..Len(TreeFiles) : TreeFiles[i] = p])]

InitRerun == (InitRerunDisk \/ InitPairDisk) /\ InitRequest

SpecRerun == InitRerun /\ [][NextRerun]_vars

Next ==
    \/ CallTool
    \/ TestsCollect
    \/ ClassifyTest
    \/ TestsFinish
    \/ DepsStart
    \/ IndexFile
    \/ DepsWalk
    \/ Risk
    \/ Return

Spec == Init /\ [][Next]_vars

-----------------------------------------------------------------------------
(* resolveImportPath on its own: every specifier, referencing file and root *)

\* import specifiers: relative, parent-relative, absolute and bare ones
Specifiers ==
    { Here \o <<Sep, "b">>,
      Here \o <<Sep, "lib", Sep, "b", Dot, "ts">>,
      Here \o <<Sep>> \o Up \o <<Sep, "a">>,
      Up \o <<Sep, "a">>,
      Up \o <<Sep>> \o Up \o <<Sep, "x">>,
      Up \o <<Sep, "repo", "2", Sep, "x">>,
      Up \o <<Sep>> \o Up \o <<Sep, "repo", "2", Sep, "x">>,
      Up \o <<Sep>> \o Up \o <<Sep>> \o Up \o <<Sep, "etc", Sep, "passwd">>,
      <<Sep, "etc", Sep, "passwd">>,
      Here,
      Up,
      <<Dot, "hidden">>,
      <<"react">>,
      <<"lodash", Sep, "fp">>,
      <<>> }

\* referencing files, relative to the root, at three depths
Referencing ==
    { <<"a", Dot, "ts">>,
      <<"lib", Sep, "b", Dot, "ts">>,
      <<"lib", Sep, "deep", Sep, "c", Dot, "ts">> }

\* repository roots as git rev-parse --show-toplevel reports them
Roots ==
    { RepoRoot, <<Sep, "work", Sep, "repo">>, <<Sep, "srv", Sep, "app">> }

\* one call of resolveImportPath
Resolve ==
    \E importPath \in Specifiers, fromFile \in Referencing, repoRoot \in Roots :
        /\ lastResolve' = [called |-> TRUE, importPath |-> importPath,
                        fromFile |-> fromFile, repoRoot |-> repoRoot,
                        result |-> ResolveImportPath(importPath, fromFile, repoRoot)]
        /\ UNCHANGED <<diskVars, pc, reqVars, depVars, testVars, risks,
                       lastIndex, suspended>>

InitResolve ==
    /\ files = <<>>
    /\ content = <<>>
    /\ denied = {}
    /\ InitRequest

SpecResolve == InitResolve /\ [][Resolve]_vars

-----------------------------------------------------------------------------
(* Properties of findIndirectDependencies *)

DepsReturned == pc = "done" /\ tool = "analyze_indirect_dependencies"

ChangedSet == Range(Paths(changedFiles))

\* the files that import a file of S, by the index
Dependents(m, S) == UNION {Range(Lookup(m, f)) : f \in S}

\* the files at most k reverse-import hops from S
RECURSIVE Reach(_, _, _)
Reach(m, S, k) == IF k = 0 THEN S ELSE Reach(m, S \cup Dependents(m, S), k - 1)

NoDuplicates(seq) == \A i, j \in 1..Len(seq) : i # j => seq[i] # seq[j]

\* C1: from the first step of findIndirectDependencies to its return, every
\* changed file's path is an element of allAffected.
C1_ChangedAreAffected ==
    pc \in {"index", "done", "risk"} => ChangedSet \subseteq Range(allAffected)

C1_Witness ==
    /\ DepsReturned
    /\ changedFiles # <<>>
    /\ Len(allAffected) > Len(changedFiles)

\* C3: every file listed as a value of the indirect-dependents map is at most
\* MAX_DEPENDENCY_DEPTH + 1 reverse-import hops from some changed file.
C3_DepthBound ==
    DepsReturned =>
        Values(indirectDeps)
            \subseteq Reach(dependencyMap, ChangedSet, MAX_DEPENDENCY_DEPTH + 1)

\* the bound bites: a file further away exists and the indirect map is not empty
C3_Witness ==
    /\ DepsReturned
    /\ Values(indirectDeps) # {}
    /\ Reach(dependencyMap, ChangedSet, NumFiles)
           # Reach(dependencyMap, ChangedSet, MAX_DEPENDENCY_DEPTH + 1)

\* C4: every file at most MAX_DEPENDENCY_DEPTH + 1 reverse-import hops from a
\* changed file is in allAffected.
C4_WalkComplete ==
    DepsReturned =>
        Reach(dependencyMap, ChangedSet, MAX_DEPENDENCY_DEPTH + 1)
            \subseteq Range(allAffected)

\* C5: allAffected is the union of the changed files, the values of the direct
\* map and the values of the indirect map, each path once.
C5_AffectedIsUnion ==
    DepsReturned =>
        /\ Range(allAffected)
               = ChangedSet \cup Values(directDeps) \cup Values(indirectDeps)
        /\ NoDuplicates(allAffected)

\* a file is both a direct and an indirect dependent
C5_Witness ==
    /\ DepsReturned
    /\ changedFiles # <<>>
    /\ Values(directDeps) \cap Values(indirectDeps) # {}


-----------------------------------------------------------------------------
(* Properties of the index *)

ImportKinds == {"es6", "require", "dynamic"}

\* the file an import of fromFile names on disk: the first of the literal
\* path, the path with an extension appended and the index file of the
\* directory that exists
OnDisk(importPath, fromFile) ==
    LET cands == ResolveCandidates(importPath, fromFile, RepoRoot)
        found == {i \in 1..Len(cands) : FileExists(cands[i])}
    IN  IF found = {} THEN Null
        ELSE Relative(RepoRoot, cands[CHOOSE i \in found : \A j \in found : i <= j])

\* C2: when file A holds a relative import that names file B on disk, the
\* finished index lists A under B, and direct[B] lists A when B is changed.
C2_ImportersRecorded ==
    DepsReturned =>
        \A A \in Range(allFiles) : \A n \in 1..Len(content[A]) :
            LET it == content[A][n]
                B == OnDisk(it.s, A)
            IN  (it.kind \in ImportKinds /\ it.s[1] = Dot
                     /\ B # Null /\ B # A)
                => /\ SeqIncludes(Lookup(dependencyMap, B), A)
                   /\ B \in ChangedSet => SeqIncludes(Lookup(directDeps, B), A)


-----------------------------------------------------------------------------
(* Properties of findRelatedTests *)

TestsReturned == pc = "done" /\ tool = "analyze_test_coverage"

\* the imports of test file t that the classifier sees
SeenImports(t) ==
    ExtractImports(t, ReadFileContent(Join(RepoRoot, t), READ_CEILING))

\* changed files some import of test file t resolves to
ImportedChanged(t) ==
    {p \in ChangedSet :
        \E n \in 1..Len(SeenImports(t)) :
            ResolveImportPath(SeenImports(t)[n], t, RepoRoot) = p}

EntriesOf(t) == {j \in 1..Len(relatedTests) : relatedTests[j].testFile = t}

\* C6: a test one of whose imports resolves to a changed file is recorded,
\* and recorded with confidence high, whatever other evidence there is.
C6_ImportMeansHigh ==
    TestsReturned =>
        \A i \in 1..Len(testFiles) :
            ImportedChanged(testFiles[i]) # {}
            => /\ EntriesOf(testFiles[i]) # {}
               /\ \A j \in EntriesOf(testFiles[i]) : relatedTests[j].confidence = "high"

\* a high entry that also holds a changed file it only mentions
C6_Witness ==
    /\ TestsReturned
    /\ \E j \in 1..Len(relatedTests) :
          /\ relatedTests[j].confidence = "high"
          /\ ImportedChanged(relatedTests[j].testFile) # {}
          /\ Range(relatedTests[j].relatedTo) \ ImportedChanged(relatedTests[j].testFile) # {}

\* changed files that appear in the relatedTo of some related test
Referenced == {p \in ChangedSet : \E j \in 1..Len(relatedTests) :
                                      p \in Range(relatedTests[j].relatedTo)}

\* C7: the percentage is an integer nearest to 100 * covered / total, 100 for
\* an empty change list, within 0..100, and covered <= total.
C7_CoveragePercentage ==
    TestsReturned =>
        LET covered == Cardinality(Referenced)
            total == Len(changedFiles)
            pct == testCoverage.percentage
        IN  /\ testCoverage.covered = covered
            /\ testCoverage.total = total
            /\ covered <= total
            /\ pct \in 0..100
            /\ total = 0 => pct = 100
            /\ total > 0 => /\ 2 * pct * total <= 200 * covered + total
                            /\ 200 * covered - total <= 2 * pct * total

\* a percentage that had to be rounded up
C7_Witness ==
    /\ TestsReturned
    /\ Len(changedFiles) = 3
    /\ Cardinality(Referenced) = 2
    /\ testCoverage.percentage = 67

\* C8: missingTests lists exactly the changed files no related test refers to,
\* each once; two of three files covered gives 67 and the third as missing.
C8_MissingTests ==
    TestsReturned =>
        /\ Range(missingTests) = ChangedSet \ Referenced
        /\ NoDuplicates(missingTests)
        /\ (Len(changedFiles) = 3 /\ Cardinality(Referenced) = 2)
           => testCoverage.percentage = 67 /\ Len(missingTests) = 1

C8_Witness ==
    /\ TestsReturned
    /\ Len(changedFiles) = 3
    /\ Referenced = {SourceFiles[1], SourceFiles[2]}
    /\ missingTests = <<SourceFiles[3]>>

-----------------------------------------------------------------------------
(* Properties of the whole analysis and of the risk engine *)

PRReturned == pc = "done" /\ tool = "analyze_pr"

FindingLists ==
    {"breakingChanges", "regressionRisks", "performanceConcerns", "securityConcerns",
     "dataIntegrityRisks", "missedConsiderations"}

\* C9: a request whose changed-file list is empty runs to its end and gives
\* coverage 100, no affected file, empty direct and indirect maps, risk level
\* Low and six empty finding lists, whatever the repository holds.
C9_EmptyChangeSet ==
    (pc = "done" /\ tool \in Tools /\ changedFiles = <<>>) =>
        /\ tool # "analyze_indirect_dependencies"
           => testCoverage.percentage = 100 /\ missingTests = <<>>
        /\ tool # "analyze_test_coverage"
           => allAffected = <<>> /\ directDeps = EmptyMap /\ indirectDeps = EmptyMap
        /\ tool = "analyze_pr"
           => /\ risks.riskLevel = "Low"
              /\ \A l \in FindingLists : risks[l] = <<>>

\* analyze_pr returned for an empty change list on a repository with imports
\* and test files
C9_Witness ==
    /\ PRReturned
    /\ changedFiles = <<>>
    /\ dependencyMap # EmptyMap
    /\ testFiles # <<>>

Weight(signal, w) == IF signal THEN w ELSE 0

\* the score of the claim: the weights of the true signals
SignalScore ==
      Weight(SomePath(changedFiles, SchemaPath), 3)
    + Weight(SomePath(changedFiles, DBPath), 4)
    + Weight(SomePath(changedFiles, AuthPath), 4)
    + Weight(SomePath(changedFiles, APIPath), 2)
    + Weight(IsLargeChange(changedFiles), 2)
    + Weight(HasMultipleFiles(changedFiles), 1)
    + Weight(testCoverage.percentage < 50, 3)
    + Weight(HasFilesDeletion(changedFiles), 2)

\* C10: the risk level is Critical iff the score is at least 10, High iff it
\* is 6..9, Medium iff it is 3..5 and Low iff it is below 3, the score being
\* the sum of the weights of the true signals.
C10_RiskLevelMapping ==
    PRReturned =>
        /\ risks.riskLevel = "Critical" <=> SignalScore >= 10
        /\ risks.riskLevel = "High" <=> (6 <= SignalScore /\ SignalScore < 10)
        /\ risks.riskLevel = "Medium" <=> (3 <= SignalScore /\ SignalScore < 6)
        /\ risks.riskLevel = "Low" <=> SignalScore < 3

\* DB, auth and API changes alone: the score is exactly 10
C10_Witness ==
    /\ PRReturned
    /\ SignalScore = 10
    /\ risks.riskLevel = "Critical"
    /\ ~SomePath(changedFiles, SchemaPath)
    /\ testCoverage.percentage >= 50

-----------------------------------------------------------------------------
(* Failures of the foundations *)

\* C11: when git cannot produce the changed-file list (the branch does not
\* exist, the repository cannot be reached), the tool call ends in an error
\* and returns no analysis result
C11_TerminalFailure == pc = "done" /\ ~gitOk => error # "none"

-----------------------------------------------------------------------------
(* The index as a function of the tree *)

\* the loop of lines 513-530 has run to its end
IndexComplete == pc = "index" /\ fileIdx > Len(allFiles)

\* the files the imports of source file f resolve to, f itself left out
TargetsOf(f) ==
    LET Resolved(imports) ==
            {ResolveImportPath(imports[i], f, RepoRoot) : i \in 1..Len(imports)}
    IN  Resolved(SeenImports(f)) \ {Null, f}

\* the source files of the present tree with an import that resolves to target
ReferencersOnDisk(target) == {f \in Range(GetAllSourceFiles) : target \in TargetsOf(f)}

SameReferencers(m1, m2) ==
    \A target \in (DOMAIN m1) \cup (DOMAIN m2) :
        Range(Lookup(m1, target)) = Range(Lookup(m2, target))

\* C12: the finished index lists for every target exactly the files of the
\* present tree that import it, so it is the same as the index an earlier call
\* built over the same tree, whatever ran in between
C12_IndexStateless ==
    IndexComplete =>
        /\ \A f \in Range(GetAllSourceFiles) : TargetsOf(f) \subseteq DOMAIN dependencyMap
        /\ \A target \in DOMAIN dependencyMap :
               Range(dependencyMap[target]) = ReferencersOnDisk(target)
        /\ (lastIndex.built /\ lastIndex.tree = content)
               => SameReferencers(lastIndex.map, dependencyMap)

\* the index has been built a second time over an unchanged tree with imports
C12_Witness ==
    /\ IndexComplete
    /\ lastIndex.built
    /\ lastIndex.tree = content
    /\ dependencyMap # EmptyMap

-----------------------------------------------------------------------------
(* The result as a function of the enumeration order *)

Reverse(q) == [i \in 1..Len(q) |-> q[Len(q) + 1 - i]]

\* the ways to enumerate the files of list q
Orders(q) ==
    {[i \in 1..Len(q) |-> q[o[i]]] :
        o \in {r \in [1..Len(q) -> 1..Len(q)] : \A a, b \in 1..Len(q) : a # b => r[a] # r[b]}}

\* lines 513-530 over the files in the given order, the imports of a file in
\* the extractor's order or in the opposite one
RECURSIVE IndexOver(_, _, _)
IndexOver(m, order, backwards) ==
    IF order = <<>> THEN m
    ELSE LET Imports(found) == IF backwards THEN Reverse(found) ELSE found
         IN  IndexOver(AddEdges(m, Head(order), Imports(SeenImports(Head(order)))),
                       Tail(order), backwards)

\* lines 532-567 on index m
WalkOver(m, cf) ==
    LET st0 == [directDeps |-> EmptyMap, indirectDeps |-> EmptyMap,
                allAffected |-> SeedAffected(cf),
                processed |-> Range(Paths(cf)), expansions |-> <<>>]
        Indirect(st1) == IndirectPass(st1, m, Paths(cf))
    IN  Indirect(DirectPass(st0, m, Paths(cf)))

\* the returned sets are those of walk result st
SameSets(st) ==
    /\ Range(st.allAffected) = Range(allAffected)
    /\ SameReferencers(st.directDeps, directDeps)
    /\ SameReferencers(st.indirectDeps, indirectDeps)

\* C13: for a fixed tree and change set, the set of affected paths and the sets
\* in the direct and indirect maps are the same for every order in which the
\* files are enumerated and the imports of a file are extracted
C13_OrderIndependent ==
    (DepsReturned /\ changedFiles # <<>>) =>
        \A order \in Orders(allFiles) : \A backwards \in BOOLEAN :
            SameSets(WalkOver(IndexOver(EmptyMap, order, backwards), changedFiles))

-----------------------------------------------------------------------------
(* Two handlers at a time *)

\* lines 621-667 over the test files tf
RECURSIVE RelatedOver(_, _, _)
RelatedOver(rt, tf, cf) ==
    IF tf = <<>> THEN rt
    ELSE RelatedOver(PushEntry(rt, Classify(Head(tf), cf)), Tail(tf), cf)

\* what findIndirectDependencies gives for the present tree when it runs alone
DepsAlone(cf) == WalkOver(IndexOver(EmptyMap, GetAllSourceFiles, FALSE), cf)

\* what the classification loop of findRelatedTests gives when it runs alone
RelatedAlone(cf) ==
    RelatedOver(<<>>, ProbeAll(ScanAll(TEST_DIRECTORIES), Paths(cf)), cf)

\* C14: a handler that ran interleaved with another one returns what it
\* returns when it runs alone on the same tree and change set
C14_RequestIsolation ==
    (pc = "done" /\ tool \in Tools) =>
        /\ tool # "analyze_test_coverage" =>
               LET Same(alone) == /\ directDeps = alone.directDeps
                                  /\ indirectDeps = alone.indirectDeps
                                  /\ allAffected = alone.allAffected
               IN  Same(DepsAlone(changedFiles))
        /\ tool # "analyze_indirect_dependencies" =>
               LET Same(rt) == /\ relatedTests = rt
                               /\ missingTests = MissingOf(changedFiles, rt)
                               /\ testCoverage = CoverageOf(changedFiles, rt)
               IN  Same(RelatedAlone(changedFiles))
        /\ tool = "analyze_pr" =>
               risks = AnalyzeRisksAndImpact(changedFiles, testCoverage.percentage,
                                             missingTests, directDeps)

\* analyze_pr has finished with a finding from the index while the other
\* handler is in the middle of its index loop
C14_Witness ==
    /\ PRReturned
    /\ directDeps # EmptyMap
    /\ Values(directDeps) # {}
    /\ relatedTests # <<>>
    /\ suspended.pc = "index"
    /\ suspended.fileIdx > 1
    /\ suspended.fileIdx <= Len(suspended.allFiles)

-----------------------------------------------------------------------------
(* The indirect walk *)

-----------------------------------------------------------------------------
(* The three signals of one test file *)

Rank(confidence) ==
    CASE confidence = "low" -> 0
      [] confidence = "medium" -> 1
      [] confidence = "high" -> 2

\* the value of `confidence` at line 625 and after every round of the loops of
\* lines 629, 639 and 652, for test file t
ConfidenceTrail(t, cf) ==
    LET st0 == [related |-> <<>>, confidence |-> "low"]
        names == ChangedFileNames(cf)
        tname == BasenameExt(t, Extname(t))
        Mentions(sN, text) ==
            [k \in 1..(Len(cf) + 1) |->
                MentionEvidence(sN, text, SubSeq(Paths(cf), 1, k - 1)).confidence]
        Names(sI, text) ==
            [k \in 1..(Len(names) + 1) |->
                NameEvidence(sI, tname, SubSeq(names, 1, k - 1), cf).confidence]
            \o Mentions(NameEvidence(sI, tname, names, cf), text)
        Imports(imports, text) ==
            [k \in 1..(Len(imports) + 1) |->
                ImportEvidence(st0, t, SubSeq(imports, 1, k - 1), Paths(cf)).confidence]
            \o Names(ImportEvidence(st0, t, imports, Paths(cf)), text)
        Of(text) == Imports(ExtractImports(t, text), text)
    IN  Of(ReadFileContent(Join(RepoRoot, t), READ_CEILING))

Rising(trail) ==
    /\ trail[1] = "low"
    /\ \A k \in 1..(Len(trail) - 1) : Rank(trail[k]) <= Rank(trail[k + 1])

\* C16: while the import, name and mention signals of a test file are
\* evaluated, its confidence starts at low and only moves upward in
\* low < medium < high; the recorded confidence is the last value
C16_ConfidenceMonotone ==
    TestsReturned =>
        /\ \A i \in 1..Len(testFiles) :
               Rising(ConfidenceTrail(testFiles[i], changedFiles))
        /\ \A j \in 1..Len(relatedTests) :
               LET Final(trail) == relatedTests[j].confidence = trail[Len(trail)]
               IN  Final(ConfidenceTrail(relatedTests[j].testFile, changedFiles))

\* one test rose to high on an import and then took a further file from a
\* mention, another test rose to medium on its name
C16_Witness ==
    /\ TestsReturned
    /\ \E j \in 1..Len(relatedTests) :
           relatedTests[j].confidence = "high" /\ Len(relatedTests[j].relatedTo) >= 2
    /\ \E j \in 1..Len(relatedTests) : relatedTests[j].confidence = "medium"

\* line 640 for test file t and changed file p
NameMatches(t, p) ==
    LET Similar(testFileName, changedFileName) ==
            \/ Includes(testFileName, changedFileName)
            \/ Includes(changedFileName, testFileName)
    IN  Similar(BasenameExt(t, Extname(t)), BasenameExt(p, Extname(p)))

\* C17: the mention signal takes effect only for a test with neither import
\* nor name evidence: in an entry with confidence high or medium every file of
\* relatedTo has import or name evidence, none is there for a mention alone
C17_MentionGated ==
    TestsReturned =>
        \A j \in 1..Len(relatedTests) :
            relatedTests[j].confidence \in {"high", "medium"} =>
                \A p \in Range(relatedTests[j].relatedTo) :
                    \/ p \in ImportedChanged(relatedTests[j].testFile)
                    \/ NameMatches(relatedTests[j].testFile, p)

\* line 655 for test file t and changed file p
Mentioned(t, p) ==
    ContentIncludes(ReadFileContent(Join(RepoRoot, t), READ_CEILING), Basename(p))

HasEvidence(t, p) ==
    p \in ImportedChanged(t) \/ NameMatches(t, p) \/ Mentioned(t, p)

\* C18: every entry of relatedTests has a non-empty relatedTo made of changed
\* files only, each with import, name or mention evidence in the test; a
\* candidate test with no evidence for any changed file has no entry
C18_OnlyRelatedTests ==
    TestsReturned =>
        /\ \A j \in 1..Len(relatedTests) :
               /\ relatedTests[j].relatedTo # <<>>
               /\ Range(relatedTests[j].relatedTo) \subseteq ChangedSet
               /\ \A p \in Range(relatedTests[j].relatedTo) :
                      HasEvidence(relatedTests[j].testFile, p)
        /\ \A i \in 1..Len(testFiles) :
               (\A p \in ChangedSet : ~HasEvidence(testFiles[i], p))
                   => EntriesOf(testFiles[i]) = {}

\* of two candidate tests with text one is recorded and one is left out
C18_Witness ==
    /\ TestsReturned
    /\ changedFiles # <<>>
    /\ relatedTests # <<>>
    /\ \E i \in 1..Len(testFiles) :
           /\ EntriesOf(testFiles[i]) = {}
           /\ content[testFiles[i]] # <<>>

-----------------------------------------------------------------------------
(* The enumeration of the source files *)

\* neither the entry nor a directory above it refuses access
CanRead(rel) ==
    /\ rel \in DOMAIN content
    /\ rel \notin denied
    /\ \A d \in AncestorDirs(rel) : d \notin denied

\* the directory is one of the ignore directories
IsIgnoreDir(d) == Basename(d) \in IgnoreDirs

\* C19: the enumeration returns a source file exactly when none of the
\* directories above it is one of the ignore directories; a file in a
\* directory that is no ignore directory is never left out
C19_IndexEnumeration ==
    pc = "index" =>
        \A p \in Range(files) :
            (Extname(p) \in SourceExtensions /\ \A d \in AncestorDirs(p) : d \notin denied)
                => (p \in Range(allFiles) <=> \A d \in AncestorDirs(p) : ~IsIgnoreDir(d))

-----------------------------------------------------------------------------
(* Properties of resolveImportPath *)

\* the location a repository-relative path names lies in the root
InsideRoot(root, rel) ==
    LET Under(abs) == abs = root \/ StartsWith(abs, root \o <<Sep>>)
    IN  Under(Join(root, rel))

\* C21: a specifier that begins with '.' or '/' resolves to null or to the
\* repository-relative path of a location inside the repository root, for every
\* referencing file and every root; any other specifier resolves to null.
C21_ResolverContained ==
    lastResolve.called =>
        IF lastResolve.importPath # <<>>
           /\ lastResolve.importPath[1] \in {Dot, Sep}
        THEN \/ lastResolve.result = Null
             \/ InsideRoot(lastResolve.repoRoot, lastResolve.result)
        ELSE lastResolve.result = Null

-----------------------------------------------------------------------------
(* Properties of the findings of the risk engine *)

\* a finding that names a file: the changed file or the previewed files
NamesFile(finding) == finding.file # <<>> \/ finding.names # <<>>

\* the signals of lines 902-953 that are true for the changed files
TrueSignals ==
    {name \in {"schema", "db", "auth", "api", "ui", "state", "utility", "config",
               "large", "many", "deletion"} :
        CASE name = "schema" -> SomePath(changedFiles, SchemaPath)
          [] name = "db" -> SomePath(changedFiles, DBPath)
          [] name = "auth" -> SomePath(changedFiles, AuthPath)
          [] name = "api" -> SomePath(changedFiles, APIPath)
          [] name = "ui" -> SomePath(changedFiles, UIPath)
          [] name = "state" -> SomePath(changedFiles, StatePath)
          [] name = "utility" -> SomePath(changedFiles, UtilityPath)
          [] name = "config" -> SomePath(changedFiles, ConfigPath)
          [] name = "large" -> IsLargeChange(changedFiles)
          [] name = "many" -> HasMultipleFiles(changedFiles)
          [] name = "deletion" -> HasFilesDeletion(changedFiles)}

\* C22: when a risk signal is true for the changed files, at least one
\* finding that names a file is in one of the six finding lists, whatever
\* the other signals are.
C22_SignalEmitsFinding ==
    (PRReturned /\ TrueSignals # {}) =>
        \E l \in FindingLists : \E i \in 1..Len(risks[l]) : NamesFile(risks[l][i])

\* the changed files that line 1064 treats as utilities
ChangedUtilities ==
    {p \in ChangedSet :
        /\ \E q \in ChangedSet :
               Includes(q, <<Sep, "utils", Sep>>) \/ Includes(q, <<Sep, "helper", "s", Sep>>)
        /\ \/ Includes(p, <<Sep, "utils", Sep>>)
           \/ Includes(p, <<Sep, "helper", "s", Sep>>)
           \/ Includes(p, <<Sep, "shared", Sep>>)}

\* the regression finding about utility u with the given preview and suffix
UtilityFinding(u, names, more) ==
    \E i \in 1..Len(risks.regressionRisks) :
        /\ risks.regressionRisks[i].rule = "utility used by"
        /\ risks.regressionRisks[i].file = Basename(u)
        /\ risks.regressionRisks[i].names = names
        /\ risks.regressionRisks[i].more = more

\* C23: for a changed utility file with n > 0 recorded direct dependents the
\* regression finding names the first min(n, 4) dependents in index order and
\* carries '(+N more)' with N = n - 4 exactly when n > 4; with n <= 4 it has no
\* suffix (more = 0 stands for the absent suffix).
C23_DependentPreview ==
    PRReturned =>
        \A u \in ChangedUtilities :
            LET n == Len(directDeps[u])
                shown == IF n < 4 THEN n ELSE 4
            IN  n > 0 =>
                    UtilityFinding(u, [i \in 1..shown |-> Basename(directDeps[u][i])],
                                   IF n > 4 THEN n - 4 ELSE 0)

\* five dependents: four names and '+1 more'
C23_Witness ==
    /\ PRReturned
    /\ \E u \in ChangedUtilities :
           /\ Len(directDeps[u]) = 5
           /\ UtilityFinding(u, [i \in 1..4 |-> Basename(Consumers[i])], 1)

\* the changed paths with 'auth' in them
ChangedAuthPaths == {p \in ChangedSet : Includes(p, <<"auth">>)}

\* securityConcerns names file p and goes on with the advice to test as
\* admin, as regular user and as guest
RolesAdviceFor(p) ==
    \E i \in 1..(Len(risks.securityConcerns) - 1) :
        /\ risks.securityConcerns[i].rule = "auth/permission changed"
        /\ risks.securityConcerns[i].file = Basename(p)
        /\ risks.securityConcerns[i + 1].rule = "how-to"
        /\ risks.securityConcerns[i + 1].text = "test as admin, as regular user, as guest"

\* C24: when a changed path has 'auth' in it, areasAffected contains
\* 'Authentication/Authorization' and securityConcerns contains a finding that
\* names that file, followed by the how-to-test line about the roles admin,
\* regular user and guest.
C24_AuthScenario ==
    PRReturned =>
        \A p \in ChangedAuthPaths :
            /\ \E i \in 1..Len(risks.areasAffected) :
                   risks.areasAffected[i] = "Authentication/Authorization"
            /\ RolesAdviceFor(p)

\* src/auth/login.js changed together with other rule files
C24_Witness ==
    /\ PRReturned
    /\ RuleFiles[3] \in ChangedAuthPaths
    /\ Len(changedFiles) > 1
    /\ RolesAdviceFor(RuleFiles[3])

\* C25: analyzeRisksAndImpact leaves its inputs as they were: the changed-file
\* list, the test analysis (relatedTests, missingTests, testCoverage) and the
\* dependency result (direct map, indirect map, allAffected) hold the same
\* contents after the call, and so do the lists of the direct map that the
\* result shares as affectedByFile.
C25_RiskEngineFrame ==
    [][(pc = "risk" /\ pc' = "done") =>
            /\ changedFiles' = changedFiles
            /\ relatedTests' = relatedTests
            /\ missingTests' = missingTests
            /\ testCoverage' = testCoverage
            /\ directDeps' = directDeps
            /\ indirectDeps' = indirectDeps
            /\ allAffected' = allAffected
            /\ risks'.affectedByFile = directDeps]_vars

\* the call has sliced the dependents of a utility with more dependents than
\* the preview shows and the list of missing tests
C25_Witness ==
    /\ PRReturned
    /\ \E u \in ChangedUtilities : Len(directDeps[u]) > 4
    /\ Len(missingTests) > 3
    /\ risks.criticalFilesToTest # <<>>
    /\ risks.affectedByFile = directDeps

-----------------------------------------------------------------------------
(* Set semantics of the lists the analysis builds *)

\* Object.values(m).flat().length, lines 710-711
RECURSIVE FlatLength(_)
FlatLength(m) ==
    IF DOMAIN m = {} THEN 0
    ELSE LET k == CHOOSE x \in DOMAIN m : TRUE
         IN  Len(m[k]) + FlatLength([x \in (DOMAIN m) \ {k} |-> m[x]])

\* the referencer/target pairs of a map
PairsOf(m) == {<<f, k>> : f \in Values(m), k \in DOMAIN m} \cap
              UNION {{<<m[k][i], k>> : i \in 1..Len(m[k])} : k \in DOMAIN m}

\* C26: in the dependency index, and so in each direct and indirect dependents
\* list, a referencer appears at most once per target, also when the
\* referencing file imports the same target more than once; the 'directly
\* affected' and 'indirectly affected' counts are numbers of distinct
\* referencers per target.
C26_IndexSetSemantics ==
    DepsReturned =>
        /\ \A k \in DOMAIN dependencyMap : NoDuplicates(dependencyMap[k])
        /\ \A k \in DOMAIN directDeps : NoDuplicates(directDeps[k])
        /\ \A k \in DOMAIN indirectDeps : NoDuplicates(indirectDeps[k])
        /\ FlatLength(directDeps) = Cardinality(PairsOf(directDeps))
        /\ FlatLength(indirectDeps) = Cardinality(PairsOf(indirectDeps))

\* C27: criticalFilesToTest contains each path at most once, for every change
\* list and dependency result, also when one file matches several rules or
\* one consumer depends on several changed files.
C27_CriticalFilesSet == PRReturned => NoDuplicates(risks.criticalFilesToTest)

-----------------------------------------------------------------------------
(* Name evidence and the candidate tests *)

\* C28: for a test file without import evidence, every changed file whose
\* base name contains or is contained by the test's base name is in the
\* relatedTo of that test's entry, with confidence medium or high, also when
\* several changed files match or share a base name.
C28_NameSimilarity ==
    TestsReturned =>
        \A i \in 1..Len(testFiles) :
            ImportedChanged(testFiles[i]) = {} =>
                \A p \in ChangedSet :
                    NameMatches(testFiles[i], p) =>
                        /\ EntriesOf(testFiles[i]) # {}
                        /\ \A j \in EntriesOf(testFiles[i]) :
                               /\ p \in Range(relatedTests[j].relatedTo)
                               /\ Rank(relatedTests[j].confidence) >= Rank("medium")

\* C29: no test file path appears in more than one entry of relatedTests,
\* also when the file is found by the listing of a configured directory and
\* by a probe, or by the probes of two changed files.
C29_CandidatesUnique ==
    TestsReturned =>
        \A i, j \in 1..Len(relatedTests) :
            i # j => relatedTests[i].testFile # relatedTests[j].testFile

-----------------------------------------------------------------------------
(* The handler and names that are no tool *)

\* C30: a tool call whose name is none of the three fails with an McpError
\* whose code is MethodNotFound, and runs no analysis.
C30_UnknownTool ==
    (pc = "done" /\ tool \notin Tools) =>
        /\ error = "MethodNotFound"
        /\ changedFiles = <<>>
        /\ allFiles = <<>>
        /\ dependencyMap = EmptyMap
        /\ testFiles = <<>>
        /\ relatedTests = <<>>
        /\ risks = NoRisks


====
